---- MODULE Spec2Model ----
(***************************************************************************)
(* A model of the in-process control plane of pyclaw / pytoclaw:           *)
(*   - MessageBus        (pytoclaw/bus/message_bus.py)                     *)
(*   - FallbackChain     (pytoclaw/providers/fallback.py)                  *)
(*   - RouteResolver     (pytoclaw/routing/resolver.py)                    *)
(*   - AgentLoop         (agent/loop.py, modelled from the design text)    *)
(* Each component has its own specification over the shared variables.     *)
(***************************************************************************)
EXTENDS Integers, Sequences, FiniteSets, TLC

None == "None"
NoMsg == 0            \* the None that consume_* returns instead of a message

\* ------------------------------------------------------------------------
\* Bounds of the model
\* ------------------------------------------------------------------------
MaxSize == 2          \* maxsize given to MessageBus(maxsize=...)
MaxMsgs == 5          \* number of distinct messages ever handed to publish_*

MaxCandidates == 3    \* longest candidate list handed to FallbackChain.execute
MaxTime == 60         \* the clock stops advancing here
MaxBindings == 2      \* longest config.bindings list
MaxIterations == 2    \* AgentInstance.max_iterations of the modelled agent
MaxTurns == 1         \* inbound messages the AgentLoop processes
MaxSpawns == 1        \* sub-agents spawned over the whole run
MaxHistory == 1       \* longest message list of a session
MaxOps == 2           \* mutating calls and restarts of one SessionManager run
MaxCalls == 3         \* ToolRegistry.execute calls over the whole run
MaxCronOps == 3       \* add_job, remove_job and enable_job calls over the whole run
MaxClock == 1         \* the cron clock stops advancing here

\* ------------------------------------------------------------------------
\* MessageBus
\* ------------------------------------------------------------------------
VARIABLES
    queues,      \* queues[q]: contents of self._inbound / self._outbound
    closed,      \* self._closed
    ppc,         \* ppc[p]: "idle" | "putting" (suspended inside await queue.put)
    pq,          \* pq[p]: the queue the suspended publish of p targets
    pmsg,        \* pmsg[p]: the message the suspended publish of p holds
    cpc,         \* cpc[q]: "idle" | "getting" (inside wait_for(queue.get()))
    nextMsg,     \* next fresh message id
    published,   \* published[q]: messages in the order their put completed
    consumed,    \* consumed[q]: messages in the order consume_* returned them
    startClosed, \* startClosed[c]: value of self._closed when the pending call of c began
    lastCall     \* the bus call that returned last, as [op, q, msg, startedClosed, result]

busVars == <<queues, closed, ppc, pq, pmsg, cpc, nextMsg, published, consumed,
             startClosed, lastCall>>

VARIABLES
    cooldowns,   \* self._cooldowns: key -> time of the last failure, NotSet if absent
    now,         \* time.time()
    xpc,         \* "idle" | "calling" (awaiting provider.chat) | "done"
    xcands,      \* the candidates argument of the running execute
    xi,          \* index of the candidate being called
    attempts,    \* the attempts list of the running execute
    xresult,     \* what execute returned or raised
    invoked,     \* indices of the candidates whose provider.chat was called, in call order
    visits       \* per candidate reached by the loop: the clock and its cooldown entry then

chainVars == <<cooldowns, now, xpc, xcands, xi, attempts, xresult, invoked, visits>>

VARIABLES
    bindings,    \* self._config.bindings
    routeInput,  \* the route_input of the last resolve, NoInput before any
    route,       \* the ResolvedRoute the last resolve returned, NoRoute before any
    route2       \* what a second resolve of the same input returned, NoRoute before it

routeVars == <<bindings, routeInput, route, route2>>

VARIABLES
    session,       \* messages of the session the turns run on
    lpc,           \* position of the AgentLoop inside a turn, "idle" between turns
    iteration,     \* iterations of the tool-calling loop begun in this turn
    providerCalls, \* FallbackChain.execute calls made in this turn
    pendingCalls,  \* tool calls of the last assistant message not yet executed
    toPublish,     \* the outbound message the loop is about to publish
    lastOutbound,  \* the outbound message the step just taken published, if any
    spawned,       \* sub-agents running, each owing one async callback
    spawnsTotal,   \* sub-agents spawned so far
    turns,         \* turns begun
    turnEnd        \* how the last finished turn ended

loopVars == <<session, lpc, iteration, providerCalls, pendingCalls, toPublish,
              lastOutbound, spawned, spawnsTotal, turns, turnEnd>>

VARIABLES
    sessions,    \* self._sessions: key -> Session, NoSession where absent
    order,       \* the keys of self._sessions in dict order
    disk,        \* the storage directory: path -> file content
    spc,         \* position inside save: "idle" | "written" (before tmp.rename)
    skey,        \* the key of the running save
    saveAll,     \* the keys save_all has still to save
    dirty,       \* keys whose session changed since its last completed save
    saveResult,  \* how the step just taken left save: "none" | "saved" | "raised"
    sops         \* mutating calls and restarts so far

sessionVars == <<sessions, order, disk, spc, skey, saveAll, dirty, saveResult, sops>>

VARIABLES
    tctx,         \* tctx[t]: (self._channel, self._chat_id) of the contextual tool t
    sendCallback, \* MessageTool._send_callback is set
    tpc,          \* tpc[c]: "idle" | "sending" | "running" | "returned" | "raised"
    targs,        \* targs[c]: the arguments of the execute call of caller c
    tres,         \* tres[c]: what that call returned or raised
    traised,      \* traised[c]: what tool.execute raised inside that call, if anything
    sends,        \* the calls of the send callback, in order, each with the
                  \* (channel, chat_id) it got and those given to its execute call
    toolJobs,     \* the CronService.add_job calls of the cron tool, likewise
    tcalls        \* execute calls made so far

toolVars == <<tctx, sendCallback, tpc, targs, tres, traised, sends, toolJobs, tcalls>>

VARIABLES
    jobs,          \* self._jobs: the ids of the job dicts, in list order
    jobOf,         \* the job dict of each id (it outlives its removal from the list)
    jobsFile,      \* the list jobs.json holds
    cnow,          \* int(time.time() * 1000)
    handlerSet,    \* self._handler is not None
    krun,          \* "new" | "running" | "stopped" | "dead" (the loop task ended)
    kpc,           \* "sleep" | "handler" (inside await self._handler(job))
    tickNow,       \* now_ms of the running _check_jobs
    tickList,      \* the list object `for job in self._jobs` iterates
    tickSame,      \* self._jobs is still that object
    tickIdx,       \* position of the loop in it
    toDelete,      \* to_delete
    added,         \* add_job calls so far
    kops,          \* add_job, remove_job and enable_job calls so far
    examined,      \* the jobs the running (or last) tick looked at, as it saw them
    invocations,   \* invocations[id]: handler calls made for the job
    deletedByTick, \* ids a tick removed as one-shot jobs
    kghost         \* an add_job and the remove_job of its id right after it

cronVars == <<jobs, jobOf, jobsFile, cnow, handlerSet, krun, kpc, tickNow, tickList, tickSame,
              tickIdx, toDelete, added, kops, examined, invocations, deletedByTick,
              kghost>>

VARIABLES
    hrun,          \* "new" | "running" | "stopped" | "dead" (the loop task ended)
    hpc,           \* "sleep" | "handler" (inside await self._handler(...))
    hbHandlerSet,  \* self._handler is not None
    hbLog          \* the last warning or error the service logged

heartbeatVars == <<hrun, hpc, hbHandlerSet, hbLog>>

VARIABLES
    hbInterval,    \* self._interval, in seconds
    hbSleepLeft,   \* seconds left of the asyncio.sleep of the heartbeat loop
    hbSinceStart,  \* seconds since start(), counted up to SinceCap
    hbSinceInvoke  \* seconds since the handler was last invoked (NotSet: never)

hbTimeVars == <<hbInterval, hbSleepLeft, hbSinceStart, hbSinceInvoke>>

VARIABLES
    alCall         \* the last is_allowed call: allowlist, sender and the value returned

allowVars == <<alCall>>

VARIABLES
    inboundLog,    \* the messages handed to bus.publish_inbound by the adapters, in order
    hcalls         \* handle_message calls made so far

inboundVars == <<inboundLog, hcalls>>

VARIABLES
    channels,      \* ChannelManager._channels: the registered names, in insertion order
    chRunning,     \* chRunning[n]: the adapter's _running
    chConnected,   \* chConnected[n]: the adapter holds an open connection (_ws is not None)
    mpc,           \* "idle", or the ChannelManager call in progress: "start_all", "stop_all"
    midx,          \* position of that call in its iteration over _channels
    mstep,         \* "call" before ch.stop() is called, "await" while it is awaited
    mlast,         \* the last start_all / stop_all call begun, "none" before any
    mTargets,      \* the channels that call has to reach
    mAttempted,    \* the channels whose start / stop that call has called
    mFailed,       \* the exceptions those starts / stops raised
    mRaised,       \* the exception that call raised to its caller, NoRaise if none
    mcalls,        \* start_all and stop_all calls begun so far
    chSends,       \* chSends[n]: calls of the adapter's send so far
    outQ,          \* the channel names of the outbound messages waiting on the bus
    outCount,      \* outbound messages published so far
    dpc,           \* the dispatcher task: "running", "dead" (ended by an exception), "cancelled"
    dpassed        \* messages the dispatcher has passed to send_to_channel

VARIABLES
    spCall         \* one spawn: the parent's configuration, the arguments, the outcome

spawnVars == <<spCall>>

channelVars == <<channels, chRunning, chConnected, mpc, midx, mstep, mlast, mTargets,
                 mAttempted, mFailed, mRaised, mcalls, chSends, outQ, outCount, dpc, dpassed>>

VARIABLES
    heldCallback,  \* the _callback the async tool holds, NoCallback before any set_callback
    apc,           \* apc[c]: "idle", or "running" while the tool's execute of caller c runs
    apassed,       \* apassed[c]: the async_callback caller c gave to its last execute call
    acalls         \* execute calls of the async tool made so far

asyncVars == <<heldCallback, apc, apassed, acalls>>

VARIABLES
    svcEnabled,    \* HeartbeatService._enabled, as given to the constructor
    svcRunning,    \* HeartbeatService._running
    svcHandlerSet, \* HeartbeatService._handler is not None
    svcTask,       \* the loop task self._task names: 0 for None, or the number of the last start()
    loopTasks      \* loopTasks[t]: where the _run_loop task made by the t-th start() stands

svcVars == <<svcEnabled, svcRunning, svcHandlerSet, svcTask, loopTasks>>

VARIABLES
    tgAllow,       \* TelegramChannel._allow_list, from config.allow_from
    tgLog,         \* the InboundMessages the Telegram adapter published, in order
    tgLast,        \* the last update _on_message handled, and whether it was published
    tgCalls        \* updates handled so far

telegramVars == <<tgAllow, tgLog, tgLast, tgCalls>>

VARIABLES
    cronRunning,   \* CronService._running
    cronTask,      \* the loop task self._task names: NoTask, or the number of the last start()
    cronLoops      \* cronLoops[t]: the _run_loop task made by the t-th start(), with the
                   \* locals of the _check_jobs call it is suspended in

cronLoopVars == <<cronRunning, cronTask, cronLoops>>

\* the variables each component leaves alone
nonBusVars == <<chainVars, routeVars, loopVars, sessionVars, toolVars, cronVars,
    heartbeatVars, hbTimeVars, allowVars, inboundVars, channelVars, spawnVars, asyncVars, svcVars, telegramVars, cronLoopVars>>
nonChainVars == <<busVars, routeVars, loopVars, sessionVars, toolVars, cronVars,
    heartbeatVars, hbTimeVars, allowVars, inboundVars, channelVars, spawnVars, asyncVars, svcVars, telegramVars, cronLoopVars>>
nonRouteVars == <<busVars, chainVars, loopVars, sessionVars, toolVars, cronVars,
    heartbeatVars, hbTimeVars, allowVars, inboundVars, channelVars, spawnVars, asyncVars, svcVars, telegramVars, cronLoopVars>>
nonLoopVars == <<busVars, chainVars, routeVars, sessionVars, toolVars, cronVars,
    heartbeatVars, hbTimeVars, allowVars, inboundVars, channelVars, spawnVars, asyncVars, svcVars, telegramVars, cronLoopVars>>
nonSessionVars == <<busVars, chainVars, routeVars, loopVars, toolVars, cronVars,
    heartbeatVars, hbTimeVars, allowVars, inboundVars, channelVars, spawnVars, asyncVars, svcVars, telegramVars, cronLoopVars>>
nonToolVars == <<busVars, chainVars, routeVars, loopVars, sessionVars, cronVars,
    heartbeatVars, hbTimeVars, allowVars, inboundVars, channelVars, spawnVars, asyncVars, svcVars, telegramVars, cronLoopVars>>
nonCronVars == <<busVars, chainVars, routeVars, loopVars, sessionVars, toolVars,
    heartbeatVars, hbTimeVars, allowVars, inboundVars, channelVars, spawnVars, asyncVars, svcVars, telegramVars, cronLoopVars>>
outsideHeartbeat == <<busVars, chainVars, routeVars, loopVars, sessionVars, toolVars,
    cronVars, allowVars, inboundVars, channelVars, spawnVars, asyncVars, svcVars, telegramVars, cronLoopVars>>
nonHeartbeatVars == <<outsideHeartbeat, hbTimeVars>>

nonAllowVars == <<busVars, chainVars, routeVars, loopVars, sessionVars, toolVars, cronVars,
    heartbeatVars, hbTimeVars, inboundVars, channelVars, spawnVars, asyncVars, svcVars, telegramVars, cronLoopVars>>
nonInboundVars == <<busVars, chainVars, routeVars, loopVars, sessionVars, toolVars, cronVars,
    heartbeatVars, hbTimeVars, allowVars, channelVars, spawnVars, asyncVars, svcVars, telegramVars, cronLoopVars>>
nonChannelVars == <<busVars, chainVars, routeVars, loopVars, sessionVars, toolVars, cronVars,
    heartbeatVars, hbTimeVars, allowVars, inboundVars, spawnVars, asyncVars, svcVars, telegramVars, cronLoopVars>>
nonSpawnVars == <<busVars, chainVars, routeVars, loopVars, sessionVars, toolVars, cronVars,
    heartbeatVars, hbTimeVars, allowVars, inboundVars, channelVars, asyncVars, svcVars, telegramVars, cronLoopVars>>
nonAsyncVars == <<busVars, chainVars, routeVars, loopVars, sessionVars, toolVars, cronVars, heartbeatVars, hbTimeVars, allowVars, inboundVars, channelVars, spawnVars, svcVars, telegramVars, cronLoopVars>>
nonSvcVars == <<busVars, chainVars, routeVars, loopVars, sessionVars, toolVars, cronVars, heartbeatVars, hbTimeVars, allowVars, inboundVars, channelVars, spawnVars, asyncVars, telegramVars, cronLoopVars>>
nonTelegramVars == <<busVars, chainVars, routeVars, loopVars, sessionVars, toolVars, cronVars, heartbeatVars, hbTimeVars, allowVars, inboundVars, channelVars, spawnVars, asyncVars, svcVars, cronLoopVars>>
nonCronLoopVars == <<busVars, chainVars, routeVars, loopVars, sessionVars, toolVars, cronVars, heartbeatVars, hbTimeVars, allowVars, inboundVars, channelVars, spawnVars, asyncVars, svcVars, telegramVars>>

Range(s) == {s[i] : i \in DOMAIN s}

Queues == {"inbound", "outbound"}
Publishers == {"p1", "p2"}
MsgIds == 1..MaxMsgs

NoCall == [op |-> None, q |-> None, msg |-> NoMsg, startedClosed |-> FALSE,
           result |-> NoMsg]

BusInit ==
    /\ queues = [q \in Queues |-> <<>>]
    /\ closed = FALSE
    /\ ppc = [p \in Publishers |-> "idle"]
    /\ pq = [p \in Publishers |-> None]
    /\ pmsg = [p \in Publishers |-> NoMsg]
    /\ cpc = [q \in Queues |-> "idle"]
    /\ nextMsg = 1
    /\ published = [q \in Queues |-> <<>>]
    /\ consumed = [q \in Queues |-> <<>>]
    /\ startClosed = [c \in Publishers \cup Queues |-> FALSE]
    /\ lastCall = NoCall

\* variant: a queue that never reports full
QueueFullNoBound(q) == FALSE
\* asyncio.Queue.full() for a queue built with maxsize = MaxSize
QueueFull(q) == Len(queues[q]) >= MaxSize

\* variant: the item goes to the head
QueuePutFront(q, m) == <<m>> \o queues[q]
\* asyncio.Queue.put_nowait: the item goes to the tail
QueuePut(q, m) == Append(queues[q], m)

\* asyncio.Queue.get_nowait: the item returned is the head, and it is removed
QueueAfterGet(q) == Tail(queues[q])

\* variant: publish without looking at self._closed
PublishGuardAlways == TRUE
\* the guard `if not self._closed` of publish_inbound / publish_outbound
PublishGuard == ~closed

\* the guard `if self._closed: return None` of consume_inbound / consume_outbound
ConsumeClosed == closed

\* publish_inbound(msg) / publish_outbound(msg) up to its first suspension:
\* dropped when closed, enqueued when there is room, otherwise suspended in put().
Publish(p, q) ==
    /\ ppc[p] = "idle"
    /\ nextMsg <= MaxMsgs
    /\ nextMsg' = nextMsg + 1
    /\ IF ~PublishGuard
       THEN /\ lastCall' = [op |-> "publish", q |-> q, msg |-> nextMsg,
                            startedClosed |-> closed, result |-> NoMsg]
            /\ UNCHANGED <<queues, ppc, pq, pmsg, published, startClosed>>
       ELSE IF ~QueueFull(q)
       THEN /\ queues' = [queues EXCEPT ![q] = QueuePut(q, nextMsg)]
            /\ published' = [published EXCEPT ![q] = Append(@, nextMsg)]
            /\ lastCall' = [op |-> "publish", q |-> q, msg |-> nextMsg,
                            startedClosed |-> closed, result |-> NoMsg]
            /\ UNCHANGED <<ppc, pq, pmsg, startClosed>>
       ELSE /\ ppc' = [ppc EXCEPT ![p] = "putting"]
            /\ pq' = [pq EXCEPT ![p] = q]
            /\ pmsg' = [pmsg EXCEPT ![p] = nextMsg]
            /\ startClosed' = [startClosed EXCEPT ![p] = closed]
            /\ UNCHANGED <<queues, published, lastCall>>
    /\ UNCHANGED <<closed, cpc, consumed>>
    /\ UNCHANGED nonBusVars

\* a publish suspended in `await queue.put(msg)` resumes once the queue has room
PublishResume(p) ==
    /\ ppc[p] = "putting"
    /\ ~QueueFull(pq[p])
    /\ queues' = [queues EXCEPT ![pq[p]] = QueuePut(pq[p], pmsg[p])]
    /\ published' = [published EXCEPT ![pq[p]] = Append(@, pmsg[p])]
    /\ lastCall' = [op |-> "publish", q |-> pq[p], msg |-> pmsg[p],
                    startedClosed |-> startClosed[p], result |-> NoMsg]
    /\ ppc' = [ppc EXCEPT ![p] = "idle"]
    /\ pq' = [pq EXCEPT ![p] = None]
    /\ pmsg' = [pmsg EXCEPT ![p] = NoMsg]
    /\ startClosed' = [startClosed EXCEPT ![p] = FALSE]
    /\ UNCHANGED <<closed, cpc, nextMsg, consumed>>
    /\ UNCHANGED nonBusVars

\* consume_inbound() / consume_outbound() up to wait_for: None when closed
Consume(q) ==
    /\ cpc[q] = "idle"
    /\ IF ConsumeClosed
       THEN /\ lastCall' = [op |-> "consume", q |-> q, msg |-> NoMsg,
                            startedClosed |-> closed, result |-> NoMsg]
            /\ UNCHANGED <<cpc, startClosed>>
       ELSE /\ cpc' = [cpc EXCEPT ![q] = "getting"]
            /\ startClosed' = [startClosed EXCEPT ![q] = closed]
            /\ UNCHANGED lastCall
    /\ UNCHANGED <<queues, closed, ppc, pq, pmsg, nextMsg, published, consumed>>
    /\ UNCHANGED nonBusVars

\* wait_for(queue.get(), 1.0) returns the head of the queue
ConsumeGet(q) ==
    /\ cpc[q] = "getting"
    /\ queues[q] # <<>>
    /\ queues' = [queues EXCEPT ![q] = QueueAfterGet(q)]
    /\ consumed' = [consumed EXCEPT ![q] = Append(@, Head(queues[q]))]
    /\ lastCall' = [op |-> "consume", q |-> q, msg |-> NoMsg,
                    startedClosed |-> startClosed[q], result |-> Head(queues[q])]
    /\ cpc' = [cpc EXCEPT ![q] = "idle"]
    /\ startClosed' = [startClosed EXCEPT ![q] = FALSE]
    /\ UNCHANGED <<closed, ppc, pq, pmsg, nextMsg, published>>
    /\ UNCHANGED nonBusVars

\* wait_for raises TimeoutError after the poll timeout: consume_* returns None
ConsumeTimeout(q) ==
    /\ cpc[q] = "getting"
    /\ lastCall' = [op |-> "consume", q |-> q, msg |-> NoMsg,
                    startedClosed |-> startClosed[q], result |-> NoMsg]
    /\ cpc' = [cpc EXCEPT ![q] = "idle"]
    /\ startClosed' = [startClosed EXCEPT ![q] = FALSE]
    /\ UNCHANGED <<queues, closed, ppc, pq, pmsg, nextMsg, published, consumed>>
    /\ UNCHANGED nonBusVars

\* close()
Close ==
    /\ ~closed
    /\ closed' = TRUE
    /\ UNCHANGED <<queues, ppc, pq, pmsg, cpc, nextMsg, published, consumed,
                   startClosed, lastCall>>
    /\ UNCHANGED nonBusVars

\* ------------------------------------------------------------------------
\* FallbackChain
\* ------------------------------------------------------------------------
CooldownSeconds == 60
NotSet == -1
TickDelta == CooldownSeconds \div 2

\* self._providers: the keys AgentInstance._build_candidates uses
Providers == {"primary", "fallback"}
Candidates == {[provider |-> "primary", model |-> "m1"],
               [provider |-> "primary", model |-> "m2"],
               [provider |-> "fallback", model |-> "m1"],
               [provider |-> "missing", model |-> "m1"]}

RECURSIVE SeqsUpTo(_, _)
SeqsUpTo(S, n) ==
    IF n = 0 THEN {<<>>}
    ELSE LET shorter == SeqsUpTo(S, n - 1)
         IN shorter \cup {Append(q, x) : q \in {r \in shorter : Len(r) = n - 1}, x \in S}

CandidateLists == SeqsUpTo(Candidates, MaxCandidates)

\* an exception text, as the set of trigger substrings it contains
ErrorTexts == {{"429", "rate"}, {"timeout"}, {}}

\* key = f"{candidate.provider}:{candidate.model}"
Key(c) == <<c.provider, c.model>>
Keys == {Key(c) : c \in Candidates}

NoResult == [kind |-> "none", from |-> 0, attempts |-> <<>>]

ChainInit ==
    /\ cooldowns = [k \in Keys |-> NotSet]
    /\ now = 0
    /\ xpc = "idle"
    /\ xcands = <<>>
    /\ xi = 0
    /\ attempts = <<>>
    /\ xresult = NoResult
    /\ invoked = <<>>
    /\ visits = <<>>

\* _classify_error: first matching group of substrings wins
ClassifyError(text) ==
    IF text \cap {"401", "403", "auth"} # {} THEN "auth"
    ELSE IF text \cap {"429", "rate"} # {} THEN "rate_limit"
    ELSE IF text \cap {"402", "billing", "quota"} # {} THEN "billing"
    ELSE IF text \cap {"timeout", "timed out"} # {} THEN "timeout"
    ELSE IF text \cap {"overloaded", "529", "503"} # {} THEN "overloaded"
    ELSE "unknown"

\* self._providers.get(candidate.provider) is not None
ProviderKnown(c) == c.provider \in Providers

\* variant: the cooldown check left out
InCooldownNever(cd, key, t) == FALSE
\* key in self._cooldowns and time.time() - self._cooldowns[key] < self._cooldown_seconds
InCooldown(cd, key, t) == cd[key] # NotSet /\ t - cd[key] < CooldownSeconds

\* the FallbackAttempt appended for a candidate whose provider is not registered
AttemptMissing(c) ==
    [provider |-> c.provider, model |-> c.model, error |-> "not found",
     reason |-> "unknown", skipped |-> TRUE]

\* variant: the cooldown attempt without its skipped flag
AttemptCooldownNotSkipped(c) ==
    [provider |-> c.provider, model |-> c.model, error |-> "In cooldown",
     reason |-> "rate_limit", skipped |-> FALSE]
\* the FallbackAttempt appended for a candidate in cooldown
AttemptCooldown(c) ==
    [provider |-> c.provider, model |-> c.model, error |-> "In cooldown",
     reason |-> "rate_limit", skipped |-> TRUE]

\* the FallbackAttempt appended after a successful provider.chat
AttemptSuccess(c) ==
    [provider |-> c.provider, model |-> c.model, error |-> None,
     reason |-> "unknown", skipped |-> FALSE]

\* the FallbackAttempt appended after provider.chat raised
AttemptFailed(c, text) ==
    [provider |-> c.provider, model |-> c.model, error |-> "raised",
     reason |-> ClassifyError(text), skipped |-> FALSE]

\* The for loop of execute from candidate i on, up to the next provider.chat:
\* candidates without provider or in cooldown get a skipped attempt.
RECURSIVE Scan(_, _, _, _, _, _)
Scan(cands, i, atts, vis, cd, t) ==
    IF i > Len(cands) THEN [next |-> i, attempts |-> atts, visits |-> vis]
    ELSE LET c == cands[i]
             v == [t |-> t, cd |-> cd[Key(c)]]
         IN IF ~ProviderKnown(c)
            THEN Scan(cands, i + 1, Append(atts, AttemptMissing(c)), Append(vis, v), cd, t)
            ELSE IF InCooldown(cd, Key(c), t)
            THEN Scan(cands, i + 1, Append(atts, AttemptCooldown(c)), Append(vis, v), cd, t)
            ELSE [next |-> i, attempts |-> atts, visits |-> Append(vis, v)]

\* variant: the error without the attempts
RaiseExhaustedNoAttempts(atts) == [kind |-> "error", from |-> 0, attempts |-> <<>>]
\* raise RuntimeError(f"All {len(candidates)} provider candidates failed. Attempts: {...}")
RaiseExhausted(atts) == [kind |-> "error", from |-> 0, attempts |-> atts]

\* return response, attempts
ReturnResponse(i, atts) == [kind |-> "response", from |-> i, attempts |-> atts]

\* the state after the loop has run from candidate i up to its next suspension
Advance(cands, i, atts, vis, inv, cd) ==
    LET r == Scan(cands, i, atts, vis, cd, now)
    IN /\ attempts' = r.attempts
       /\ visits' = r.visits
       /\ IF r.next > Len(cands)
          THEN /\ xpc' = "done"
               /\ xi' = 0
               /\ xresult' = RaiseExhausted(r.attempts)
               /\ invoked' = inv
          ELSE /\ xpc' = "calling"
               /\ xi' = r.next
               /\ xresult' = NoResult
               /\ invoked' = Append(inv, r.next)

\* execute(candidates, ...) up to the first provider.chat or the raise
Execute(cands) ==
    /\ xpc = "idle"
    /\ xcands' = cands
    /\ Advance(cands, 1, <<>>, <<>>, <<>>, cooldowns)
    /\ UNCHANGED <<cooldowns, now>>
    /\ UNCHANGED nonChainVars

\* the caller has taken the result; the chain keeps only its cooldowns
Finish ==
    /\ xpc = "done"
    /\ xpc' = "idle"
    /\ xcands' = <<>>
    /\ xi' = 0
    /\ attempts' = <<>>
    /\ xresult' = NoResult
    /\ invoked' = <<>>
    /\ visits' = <<>>
    /\ UNCHANGED <<cooldowns, now>>
    /\ UNCHANGED nonChainVars

\* provider.chat returned: the attempt is recorded and execute returns
ChatReturns ==
    /\ xpc = "calling"
    /\ attempts' = Append(attempts, AttemptSuccess(xcands[xi]))
    /\ xresult' = ReturnResponse(xi, attempts')
    /\ xpc' = "done"
    /\ UNCHANGED <<cooldowns, now, xcands, xi, invoked, visits>>
    /\ UNCHANGED nonChainVars

\* variant: a failure that starts no cooldown
StartCooldownNever(cd, key, t) == cd
\* self._cooldowns[key] = time.time()
StartCooldown(cd, key, t) == [cd EXCEPT ![key] = t]

\* provider.chat raised: cooldown starts, the attempt is recorded, the loop goes on
ChatRaises(text) ==
    /\ xpc = "calling"
    /\ cooldowns' = StartCooldown(cooldowns, Key(xcands[xi]), now)
    /\ Advance(xcands, xi + 1, Append(attempts, AttemptFailed(xcands[xi], text)),
               visits, invoked, cooldowns')
    /\ UNCHANGED <<now, xcands>>
    /\ UNCHANGED nonChainVars

\* time passes
Tick ==
    /\ now + TickDelta <= MaxTime
    /\ now' = now + TickDelta
    /\ UNCHANGED <<cooldowns, xpc, xcands, xi, attempts, xresult, invoked, visits>>
    /\ UNCHANGED nonChainVars

ChainNext ==
    \/ \E cands \in CandidateLists : Execute(cands)
    \/ ChatReturns
    \/ \E text \in ErrorTexts : ChatRaises(text)
    \/ Finish
    \/ Tick

\* ------------------------------------------------------------------------
\* RouteResolver
\* ------------------------------------------------------------------------
\* PeerMatch / RoutePeer; present = FALSE stands for None
NoPeer == [present |-> FALSE, kind |-> "", id |-> ""]
Peer(kind, id) == [present |-> TRUE, kind |-> kind, id |-> id]

\* BindingMatch values of config.bindings
BindingMatches ==
    [channel : {"", "tg"}, account_id : {"", "a1"}, peer : {NoPeer, Peer("direct", "u1")},
     guild_id : {"", "g1"}, team_id : {"", "t1"}]

\* RouteInput values
RouteInputs ==
    [channel : {"tg", "dc"}, account_id : {"", "a1"},
     peer : {NoPeer, Peer("direct", "u1"), Peer("group", "u1")},
     guild_id : {"", "g1"}, team_id : {"", "t1"}, present : {TRUE}]

\* AgentBinding.agent_id of the i-th binding: distinct ids, one of them empty
AgentAt(i) == IF i = 2 THEN "" ELSE "agent" \o ToString(i)

NoInput == [channel |-> "", account_id |-> "", peer |-> NoPeer, guild_id |-> "",
            team_id |-> "", present |-> FALSE]
NoRoute == [agent_id |-> "", channel |-> "", account_id |-> "", session_key |-> "",
            main_session_key |-> "", matched_by |-> ""]

RouteInit ==
    /\ bindings = <<>>
    /\ routeInput = NoInput
    /\ route = NoRoute
    /\ route2 = NoRoute

\* agent_id or 'default'
AgentOrDefault(agent_id) == IF agent_id = "" THEN "default" ELSE agent_id

\* variant: keys built from the binding's raw agent_id
BuildRouteRawKey(agent_id, in, matched_by) ==
    [agent_id |-> AgentOrDefault(agent_id),
     channel |-> in.channel,
     account_id |-> in.account_id,
     session_key |-> "agent:" \o agent_id \o ":" \o in.channel \o ":" \o in.account_id,
     main_session_key |-> "agent:" \o agent_id \o ":main",
     matched_by |-> matched_by]
\* RouteResolver._build_route
BuildRoute(agent_id, in, matched_by) ==
    [agent_id |-> AgentOrDefault(agent_id),
     channel |-> in.channel,
     account_id |-> in.account_id,
     session_key |-> "agent:" \o AgentOrDefault(agent_id) \o ":" \o in.channel
                       \o ":" \o in.account_id,
     main_session_key |-> "agent:" \o AgentOrDefault(agent_id) \o ":main",
     matched_by |-> matched_by]

\* variant: the wildcard branch without its peer / account exclusion
ChannelWildcardLoose(match, in) ==
    match.channel # "" /\ match.channel = in.channel
\* the condition of the channel wildcard branch of resolve
ChannelWildcard(match, in) ==
    /\ match.channel # "" /\ match.channel = in.channel
    /\ ~match.peer.present /\ match.account_id = ""

\* the body of `for binding in self._config.bindings` from binding i on,
\* and the default route after the loop
RECURSIVE ResolveFrom(_, _, _)
ResolveFrom(bs, i, in) ==
    IF i > Len(bs) THEN BuildRoute("", in, "default")
    ELSE LET match == bs[i].match
         IN IF /\ match.peer.present /\ in.peer.present
               /\ match.peer.kind = in.peer.kind
               /\ match.peer.id = in.peer.id
               /\ (match.channel = "" \/ match.channel = in.channel)
            THEN BuildRoute(bs[i].agent_id, in, "peer")
            ELSE IF match.guild_id # "" /\ match.guild_id = in.guild_id
            THEN BuildRoute(bs[i].agent_id, in, "guild")
            ELSE IF match.team_id # "" /\ match.team_id = in.team_id
            THEN BuildRoute(bs[i].agent_id, in, "team")
            ELSE IF match.account_id # "" /\ match.account_id = in.account_id
            THEN BuildRoute(bs[i].agent_id, in, "account")
            ELSE IF ChannelWildcard(match, in)
            THEN BuildRoute(bs[i].agent_id, in, "channel")
            ELSE ResolveFrom(bs, i + 1, in)

\* RouteResolver.resolve
resolve(bs, in) == ResolveFrom(bs, 1, in)

\* Config(bindings=[...]): one more AgentBinding in the table
AddBinding(match) ==
    /\ Len(bindings) < MaxBindings
    /\ route = NoRoute
    /\ bindings' = Append(bindings, [agent_id |-> AgentAt(Len(bindings) + 1), match |-> match])
    /\ UNCHANGED <<routeInput, route, route2>>
    /\ UNCHANGED nonRouteVars

\* RouteResolver.resolve(route_input)
Resolve(in) ==
    /\ route = NoRoute
    /\ routeInput' = in
    /\ route' = resolve(bindings, in)
    /\ UNCHANGED <<bindings, route2>>
    /\ UNCHANGED nonRouteVars

\* RouteResolver.resolve called once more with the same route_input
ResolveAgain ==
    /\ route # NoRoute
    /\ route2 = NoRoute
    /\ route2' = resolve(bindings, routeInput)
    /\ UNCHANGED <<bindings, routeInput, route>>
    /\ UNCHANGED nonRouteVars

RouteNext ==
    \/ \E match \in BindingMatches : AddBinding(match)
    \/ \E in \in RouteInputs : Resolve(in)
    \/ ResolveAgain

\* ------------------------------------------------------------------------
\* AgentLoop: one session, turns processed one at a time (design text 4.7)
\* ------------------------------------------------------------------------
\* numbers of tool calls a provider response may carry
CallCounts == {1, 2}

\* Message{role, content, tool_calls, tool_call_id}; content is an identity tag
NoId == <<0, 0>>
Msg(role, content, calls, call_id) ==
    [role |-> role, content |-> content, tool_calls |-> calls, tool_call_id |-> call_id]

\* OutboundMessage; kind tells what the content is
NoOutbound == [kind |-> "none", content |-> <<"none", 0>>]
Outbound(kind, content) == [kind |-> kind, content |-> content]

LoopInit ==
    /\ session = <<>>
    /\ lpc = "idle"
    /\ iteration = 0
    /\ providerCalls = 0
    /\ pendingCalls = <<>>
    /\ toPublish = NoOutbound
    /\ lastOutbound = NoOutbound
    /\ spawned = 0
    /\ spawnsTotal = 0
    /\ turns = 0
    /\ turnEnd = "none"

\* points at which the loop is suspended and other tasks run
Suspended == lpc \in {"idle", "provider", "tool", "publish", "save"}

\* variant: a loop without iteration cap
LoopMayContinueUnbounded(n) == TRUE
\* step 4: the loop is bounded by the agent's max_iterations
LoopMayContinue(n) == n < MaxIterations

\* variant: the assistant message not yet in the session when it is published
AppendAssistantSkipped(sess, m) == sess
\* step 4b / 5: the assistant message is appended to the session before it is published
AppendAssistant(sess, m) == Append(sess, m)

\* variant: a tool-role reply that does not echo the call's id
ToolReplyNoId(call) == Msg("tool", <<"result", Len(session) + 1>>, <<>>, NoId)
\* step 4c: the tool-role reply to a call echoes the call's id
ToolReply(call) == Msg("tool", <<"result", Len(session) + 1>>, <<>>, call)

\* steps 1-3: route, store the user message, build the context
StartTurn ==
    /\ lpc = "idle"
    /\ turns < MaxTurns
    /\ turns' = turns + 1
    /\ session' = Append(session, Msg("user", <<"user", Len(session) + 1>>, <<>>, NoId))
    /\ iteration' = 0
    /\ providerCalls' = 0
    /\ lpc' = "loop"
    /\ lastOutbound' = NoOutbound
    /\ UNCHANGED <<pendingCalls, toPublish, spawned, spawnsTotal, turnEnd>>
    /\ UNCHANGED nonLoopVars

\* step 4a: call the FallbackChain; step 5 when the iterations are used up
LoopHead ==
    /\ lpc = "loop"
    /\ IF LoopMayContinue(iteration)
       THEN /\ iteration' = iteration + 1
            /\ providerCalls' = providerCalls + 1
            /\ lpc' = "provider"
            /\ UNCHANGED <<session, toPublish, turnEnd>>
       ELSE LET m == Msg("assistant", <<"truncated", Len(session) + 1>>, <<>>, NoId)
            IN /\ session' = AppendAssistant(session, m)
               /\ toPublish' = Outbound("assistant", m.content)
               /\ turnEnd' = "cap"
               /\ lpc' = "publish"
               /\ UNCHANGED <<iteration, providerCalls>>
    /\ lastOutbound' = NoOutbound
    /\ UNCHANGED <<pendingCalls, spawned, spawnsTotal, turns>>
    /\ UNCHANGED nonLoopVars

\* step 4b: the response carries no tool calls
ProviderReplies ==
    /\ lpc = "provider"
    /\ LET m == Msg("assistant", <<"reply", Len(session) + 1>>, <<>>, NoId)
       IN /\ session' = AppendAssistant(session, m)
          /\ toPublish' = Outbound("assistant", m.content)
    /\ turnEnd' = "reply"
    /\ lpc' = "publish"
    /\ lastOutbound' = NoOutbound
    /\ UNCHANGED <<iteration, providerCalls, pendingCalls, spawned, spawnsTotal, turns>>
    /\ UNCHANGED nonLoopVars

\* step 4c: the response carries n tool calls; the assistant message is appended
ProviderCallsTools(n) ==
    /\ lpc = "provider"
    /\ LET ids == [k \in 1..n |-> <<Len(session) + 1, k>>]
       IN /\ session' = Append(session,
                 Msg("assistant", <<"calls", Len(session) + 1>>, ids, NoId))
          /\ pendingCalls' = ids
    /\ lpc' = "tool"
    /\ lastOutbound' = NoOutbound
    /\ UNCHANGED <<iteration, providerCalls, toPublish, spawned, spawnsTotal, turns, turnEnd>>
    /\ UNCHANGED nonLoopVars

\* failure semantics: the chain is exhausted; the turn fails and a synthetic
\* assistant error reply is delivered
ProviderExhausted ==
    /\ lpc = "provider"
    /\ LET m == Msg("assistant", <<"error", Len(session) + 1>>, <<>>, NoId)
       IN /\ session' = AppendAssistant(session, m)
          /\ toPublish' = Outbound("assistant", m.content)
    /\ turnEnd' = "exhausted"
    /\ lpc' = "publish"
    /\ lastOutbound' = NoOutbound
    /\ UNCHANGED <<iteration, providerCalls, pendingCalls, spawned, spawnsTotal, turns>>
    /\ UNCHANGED nonLoopVars

\* step 4c: ToolRegistry.execute of the next call returned; kind is what the
\* ToolResult is: "silent", "user" (non-silent with for_user), "plain", "async"
ToolReturns(kind) ==
    /\ lpc = "tool"
    /\ pendingCalls # <<>>
    /\ kind = "async" => spawnsTotal < MaxSpawns
    /\ session' = Append(session, ToolReply(Head(pendingCalls)))
    /\ pendingCalls' = Tail(pendingCalls)
    /\ spawned' = IF kind = "async" THEN spawned + 1 ELSE spawned
    /\ spawnsTotal' = IF kind = "async" THEN spawnsTotal + 1 ELSE spawnsTotal
    /\ lastOutbound' = IF kind = "user"
                       THEN Outbound("tool", <<"result", Len(session) + 1>>)
                       ELSE NoOutbound
    /\ lpc' = IF Tail(pendingCalls) = <<>> THEN "loop" ELSE "tool"
    /\ UNCHANGED <<iteration, providerCalls, toPublish, turns, turnEnd>>
    /\ UNCHANGED nonLoopVars

\* publish_outbound of the assistant message appended just before
Publish_Reply ==
    /\ lpc = "publish"
    /\ lastOutbound' = toPublish
    /\ toPublish' = NoOutbound
    /\ lpc' = "save"
    /\ UNCHANGED <<session, iteration, providerCalls, pendingCalls, spawned, spawnsTotal, turns, turnEnd>>
    /\ UNCHANGED nonLoopVars

\* the session is saved and the turn is over
SaveAndEnd ==
    /\ lpc = "save"
    /\ lpc' = "idle"
    /\ lastOutbound' = NoOutbound
    /\ UNCHANGED <<session, iteration, providerCalls, pendingCalls, toPublish,
                   spawned, spawnsTotal, turns, turnEnd>>
    /\ UNCHANGED nonLoopVars

\* a sub-agent finished: its callback appends the answer to the originating
\* session and emits an outbound message
AsyncCallback ==
    /\ spawned > 0
    /\ Suspended
    /\ spawned' = spawned - 1
    /\ LET m == Msg("assistant", <<"subagent", Len(session) + 1>>, <<>>, NoId)
       IN /\ session' = AppendAssistant(session, m)
          /\ lastOutbound' = Outbound("assistant", m.content)
    /\ UNCHANGED <<lpc, iteration, providerCalls, pendingCalls, toPublish, spawnsTotal,
                   turns, turnEnd>>
    /\ UNCHANGED nonLoopVars

LoopNext ==
    \/ StartTurn
    \/ LoopHead
    \/ ProviderReplies
    \/ \E n \in CallCounts : ProviderCallsTools(n)
    \/ ProviderExhausted
    \/ \E kind \in {"silent", "user", "plain", "async"} : ToolReturns(kind)
    \/ Publish_Reply
    \/ SaveAndEnd
    \/ AsyncCallback

\* ------------------------------------------------------------------------
\* SessionManager (pyclaw/session/manager.py)
\* ------------------------------------------------------------------------
\* session keys, as sequences of characters
SessionKeys == {<<"a", ":", "b">>, <<"a", "_", "b">>, <<"c">>}
NoKey == <<>>

\* the characters of the class [a-zA-Z0-9_-] that occur in the keys
SafeChars == {"a", "b", "c", "_", "-"}

\* _sanitize_filename: re.sub(r"[^a-zA-Z0-9_-]", "_", name)
SanitizeFilename(name) ==
    [i \in DOMAIN name |-> IF name[i] \in SafeChars THEN name[i] ELSE "_"]

\* _session_path: <storage>/<safe_name>.json
SessionPath(key) == <<SanitizeFilename(key), "json">>

\* variant: the serialized session is written straight to the final path
WithSuffixTmpSamePath(path) == path
\* path.with_suffix(".tmp")
WithSuffixTmp(path) == <<path[1], "tmp">>

Paths == UNION {{SessionPath(k), <<SanitizeFilename(k), "tmp">>} : k \in SessionKeys}
JsonPaths == {p \in Paths : p[2] = "json"}

\* Message(role, content) values handed to add_message / set_history
SessionMessages == {[role |-> "user", content |-> "hi"],
                    [role |-> "assistant", content |-> "ok"]}
Histories == SeqsUpTo(SessionMessages, MaxHistory)
Summaries == {"", "s"}

\* Session(key=key), and the absence of one
NoSession == [present |-> FALSE, key |-> NoKey, messages |-> <<>>, summary |-> ""]
NewSession(key) == [present |-> TRUE, key |-> key, messages |-> <<>>, summary |-> ""]

\* file contents: no file, a file cut short by a failed write, a complete JSON document
NoFile == [kind |-> "absent", key |-> NoKey, messages |-> <<>>, summary |-> ""]
PartialFile == [kind |-> "partial", key |-> NoKey, messages |-> <<>>, summary |-> ""]

\* json.dumps(session.model_dump(mode="json"))
Dump(s) == [kind |-> "json", key |-> s.key, messages |-> s.messages, summary |-> s.summary]

\* Session.model_validate(json.loads(text))
Validate(f) == [present |-> TRUE, key |-> f.key, messages |-> f.messages, summary |-> f.summary]

\* _load_sessions: every *.json file that parses becomes the session of the key
\* it holds; files that do not parse are skipped
LoadSessions(d) ==
    [k \in SessionKeys |->
        IF \E p \in JsonPaths : d[p].kind = "json" /\ d[p].key = k
        THEN Validate(d[CHOOSE p \in JsonPaths : d[p].kind = "json" /\ d[p].key = k])
        ELSE NoSession]

SessionInit ==
    /\ sessions = [k \in SessionKeys |-> NoSession]
    /\ order = <<>>
    /\ disk = [p \in Paths |-> NoFile]
    /\ spc = "idle"
    /\ skey = NoKey
    /\ saveAll = <<>>
    /\ dirty = {}
    /\ saveResult = "none"
    /\ sops = 0

\* get_or_create
GetOrCreate(ss, key) == IF ss[key].present THEN ss ELSE [ss EXCEPT ![key] = NewSession(key)]
OrderWith(key) == IF sessions[key].present THEN order ELSE Append(order, key)

\* messages[-keep_last:]
LastN(msgs, n) ==
    IF n = 0 \/ n >= Len(msgs) THEN msgs ELSE SubSeq(msgs, Len(msgs) - n + 1, Len(msgs))

\* no save is running: the manager's methods are synchronous
ManagerIdle == spc = "idle" /\ saveAll = <<>>

\* a mutating call of the manager
Mutated(key, ss) ==
    /\ ManagerIdle
    /\ sops < MaxOps
    /\ sops' = sops + 1
    /\ sessions' = ss
    /\ dirty' = IF ss = sessions THEN dirty ELSE dirty \cup {key}
    /\ saveResult' = "none"
    /\ UNCHANGED <<disk, spc, skey, saveAll>>
    /\ UNCHANGED nonSessionVars

\* add_message(session_key, role, content)
AddMessage(key, m) ==
    /\ Len(sessions[key].messages) < MaxHistory
    /\ order' = OrderWith(key)
    /\ Mutated(key, [GetOrCreate(sessions, key) EXCEPT
                        ![key].messages = Append(sessions[key].messages, m)])

\* set_summary(key, summary)
SetSummary(key, summary) ==
    /\ order' = OrderWith(key)
    /\ Mutated(key, [GetOrCreate(sessions, key) EXCEPT ![key].summary = summary])

\* set_history(key, history)
SetHistory(key, history) ==
    /\ order' = OrderWith(key)
    /\ Mutated(key, [GetOrCreate(sessions, key) EXCEPT ![key].messages = history])

\* truncate_history(key, keep_last)
TruncateHistory(key, keep_last) ==
    /\ UNCHANGED order
    /\ Mutated(key, IF sessions[key].present /\ Len(sessions[key].messages) > keep_last
                    THEN [sessions EXCEPT ![key].messages = LastN(@, keep_last)]
                    ELSE sessions)

\* clear(key)
Clear(key) ==
    /\ UNCHANGED order
    /\ Mutated(key, IF sessions[key].present
                    THEN [sessions EXCEPT ![key].messages = <<>>, ![key].summary = ""]
                    ELSE sessions)

\* save(key) up to the end of tmp.write_text: the temp file holds the document
SaveWrite(key) ==
    /\ spc = "idle"
    /\ IF saveAll = <<>> THEN TRUE ELSE key = Head(saveAll)
    /\ sessions[key].present
    /\ disk' = [disk EXCEPT ![WithSuffixTmp(SessionPath(key))] = Dump(sessions[key])]
    /\ spc' = "written"
    /\ skey' = key
    /\ saveResult' = "none"
    /\ UNCHANGED <<sessions, order, saveAll, dirty, sops>>
    /\ UNCHANGED nonSessionVars

\* save(key) when tmp.write_text raises part way: the exception leaves save
\* (and save_all)
SaveWriteFails(key) ==
    /\ spc = "idle"
    /\ IF saveAll = <<>> THEN TRUE ELSE key = Head(saveAll)
    /\ sessions[key].present
    /\ disk' = [disk EXCEPT ![WithSuffixTmp(SessionPath(key))] = PartialFile]
    /\ saveAll' = <<>>
    /\ saveResult' = "raised"
    /\ UNCHANGED <<sessions, order, spc, skey, dirty, sops>>
    /\ UNCHANGED nonSessionVars

\* tmp.rename(path): the temp file replaces the final one in one step
Rename(d, from, to) ==
    IF from = to THEN d ELSE [d EXCEPT ![to] = d[from], ![from] = NoFile]

SaveRename ==
    /\ spc = "written"
    /\ disk' = Rename(disk, WithSuffixTmp(SessionPath(skey)), SessionPath(skey))
    /\ spc' = "idle"
    /\ skey' = NoKey
    /\ saveAll' = IF saveAll = <<>> THEN <<>> ELSE Tail(saveAll)
    /\ dirty' = dirty \ {skey}
    /\ saveResult' = "saved"
    /\ UNCHANGED <<sessions, order, sops>>
    /\ UNCHANGED nonSessionVars

\* save_all: save(key) for every key of self._sessions, in dict order
SaveAll ==
    /\ ManagerIdle
    /\ order # <<>>
    /\ saveAll' = order
    /\ saveResult' = "none"
    /\ UNCHANGED <<sessions, order, disk, spc, skey, dirty, sops>>
    /\ UNCHANGED nonSessionVars

\* the process dies (at any point, also between write_text and rename) and a
\* new SessionManager is built on the same directory; glob order is arbitrary
Restart(newOrder) ==
    /\ sops < MaxOps
    /\ sops' = sops + 1
    /\ sessions' = LoadSessions(disk)
    /\ Range(newOrder) = {k \in SessionKeys : LoadSessions(disk)[k].present}
    /\ Len(newOrder) = Cardinality(Range(newOrder))
    /\ order' = newOrder
    /\ spc' = "idle"
    /\ skey' = NoKey
    /\ saveAll' = <<>>
    /\ dirty' = {}
    /\ saveResult' = "none"
    /\ UNCHANGED disk
    /\ UNCHANGED nonSessionVars

SessionNext ==
    \/ \E key \in SessionKeys, m \in SessionMessages : AddMessage(key, m)
    \/ \E key \in SessionKeys, summary \in Summaries : SetSummary(key, summary)
    \/ \E key \in SessionKeys, history \in Histories : SetHistory(key, history)
    \/ \E key \in SessionKeys, keep_last \in 0..MaxHistory : TruncateHistory(key, keep_last)
    \/ \E key \in SessionKeys : Clear(key)
    \/ \E key \in SessionKeys : SaveWrite(key)
    \/ \E key \in SessionKeys : SaveWriteFails(key)
    \/ SaveRename
    \/ SaveAll
    \/ \E newOrder \in SeqsUpTo(SessionKeys, Cardinality(SessionKeys)) : Restart(newOrder)

\* ------------------------------------------------------------------------
\* ToolRegistry with a shared MessageTool, CronTool and a plain Tool
\* (pyclaw/tools/registry.py, pyclaw/tools/message_tool.py,
\*  pytoclaw/tools/cron_tool.py)
\* ------------------------------------------------------------------------
\* the tasks that call ToolRegistry.execute concurrently on one event loop
Callers == {"t1", "t2"}

\* self._tools: "message" and "cron" are ContextualTools, "tool" is a plain Tool
RegisteredTools == {"message", "cron", "tool"}
ContextualTools == {"message", "cron"}
ToolNames == RegisteredTools \cup {"nonexistent"}

\* (channel, chat_id) pairs given to execute; the last one is the defaults
Contexts == {<<"tg", "c1">>, <<"dc", "c2">>, <<"", "">>}
NoContext == <<"", "">>

\* args["content"] of the message tool
Contents == {"", "hi"}

\* what a tool's execute may raise: base tells whether the class derives from
\* Exception or only from BaseException (asyncio.CancelledError, SystemExit)
Raisables == {[base |-> "Exception", text |-> "boom"],
              [base |-> "BaseException", text |-> "CancelledError"]}
NoRaise == [base |-> "none", text |-> ""]

NoArgs == [name |-> "", context |-> NoContext, content |-> ""]
NoOutcome == [kind |-> "none", is_error |-> FALSE, silent |-> FALSE, text |-> ""]

\* ToolResult.success / error / silent_result
ToolSuccess(text) == [kind |-> "result", is_error |-> FALSE, silent |-> FALSE, text |-> text]
ToolError(text) == [kind |-> "result", is_error |-> TRUE, silent |-> FALSE, text |-> text]
ToolSilent(text) == [kind |-> "result", is_error |-> FALSE, silent |-> TRUE, text |-> text]
\* an exception leaving ToolRegistry.execute
Propagated(exc) == [kind |-> "raised", is_error |-> FALSE, silent |-> FALSE, text |-> exc.text]

ToolsInit ==
    /\ tctx = [t \in ContextualTools |-> NoContext]
    /\ sendCallback = FALSE
    /\ tpc = [c \in Callers |-> "idle"]
    /\ targs = [c \in Callers |-> NoArgs]
    /\ tres = [c \in Callers |-> NoOutcome]
    /\ traised = [c \in Callers |-> NoRaise]
    /\ sends = <<>>
    /\ toolJobs = <<>>
    /\ tcalls = 0

\* variant: execute without its try / except
CaughtNever(exc) == FALSE
\* `except Exception as e`
Caught(exc) == exc.base = "Exception"

\* variant: the context is injected only into a tool that has none yet
SetContextOnce(ctxs, name, context) ==
    IF ctxs[name] = NoContext THEN [ctxs EXCEPT ![name] = context] ELSE ctxs
\* tool.set_context(channel, chat_id)
SetContext(ctxs, name, context) == [ctxs EXCEPT ![name] = context]

\* the end of ToolRegistry.execute when tool.execute raised exc
AfterRaise(exc) ==
    IF Caught(exc) THEN ToolError("Tool execution error: " \o exc.text)
    ELSE Propagated(exc)

\* MessageTool.set_send_callback
SetSendCallback ==
    /\ ~sendCallback
    /\ sendCallback' = TRUE
    /\ UNCHANGED <<tctx, tpc, targs, tres, traised, sends, toolJobs, tcalls>>
    /\ UNCHANGED nonToolVars

\* ToolRegistry.execute(name, args, channel, chat_id) by caller c, up to the
\* first suspension inside tool.execute (or to its return)
ExecuteTool(c, name, context, content) ==
    /\ tpc[c] \in {"idle", "returned", "raised"}
    /\ tcalls < MaxCalls
    /\ tcalls' = tcalls + 1
    /\ targs' = [targs EXCEPT ![c] = [name |-> name, context |-> context, content |-> content]]
    /\ traised' = [traised EXCEPT ![c] = NoRaise]
    /\ LET ctxs == IF name \in ContextualTools THEN SetContext(tctx, name, context) ELSE tctx
       IN /\ tctx' = ctxs
          /\ IF name \notin RegisteredTools
             THEN /\ tres' = [tres EXCEPT ![c] = ToolError("Unknown tool: " \o name)]
                  /\ tpc' = [tpc EXCEPT ![c] = "returned"]
                  /\ UNCHANGED <<sends, toolJobs>>
             ELSE IF name = "message"
             THEN IF content = ""
                  THEN /\ tres' = [tres EXCEPT ![c] = ToolError("No content provided")]
                       /\ tpc' = [tpc EXCEPT ![c] = "returned"]
                       /\ UNCHANGED <<sends, toolJobs>>
                  ELSE IF sendCallback
                  THEN /\ sends' = Append(sends, [caller |-> c, given |-> context,
                                                  channel |-> ctxs[name][1],
                                                  chat_id |-> ctxs[name][2]])
                       /\ tres' = [tres EXCEPT ![c] = NoOutcome]
                       /\ tpc' = [tpc EXCEPT ![c] = "sending"]
                       /\ UNCHANGED toolJobs
                  ELSE /\ tres' = [tres EXCEPT ![c] = ToolError("No send callback configured")]
                       /\ tpc' = [tpc EXCEPT ![c] = "returned"]
                       /\ UNCHANGED <<sends, toolJobs>>
             ELSE IF name = "cron"
             THEN /\ toolJobs' = Append(toolJobs, [caller |-> c, given |-> context,
                                                   channel |-> ctxs[name][1],
                                                   chat_id |-> ctxs[name][2]])
                  /\ tres' = [tres EXCEPT ![c] = ToolSuccess("Job created")]
                  /\ tpc' = [tpc EXCEPT ![c] = "returned"]
                  /\ UNCHANGED sends
             ELSE /\ tres' = [tres EXCEPT ![c] = NoOutcome]
                  /\ tpc' = [tpc EXCEPT ![c] = "running"]
                  /\ UNCHANGED <<sends, toolJobs>>
    /\ UNCHANGED sendCallback
    /\ UNCHANGED nonToolVars

\* the awaited send callback of the message tool returned
SendReturns(c) ==
    /\ tpc[c] = "sending"
    /\ tres' = [tres EXCEPT ![c] = ToolSilent("Message sent")]
    /\ tpc' = [tpc EXCEPT ![c] = "returned"]
    /\ UNCHANGED <<tctx, sendCallback, targs, traised, sends, toolJobs, tcalls>>
    /\ UNCHANGED nonToolVars

\* the awaited send callback raised: the exception leaves MessageTool.execute
SendRaises(c, exc) ==
    /\ tpc[c] = "sending"
    /\ traised' = [traised EXCEPT ![c] = exc]
    /\ tres' = [tres EXCEPT ![c] = AfterRaise(exc)]
    /\ tpc' = [tpc EXCEPT ![c] = IF Caught(exc) THEN "returned" ELSE "raised"]
    /\ UNCHANGED <<tctx, sendCallback, targs, sends, toolJobs, tcalls>>
    /\ UNCHANGED nonToolVars

\* the plain tool's execute returned a result
ToolExecuteReturns(c) ==
    /\ tpc[c] = "running"
    /\ tres' = [tres EXCEPT ![c] = ToolSuccess("done")]
    /\ tpc' = [tpc EXCEPT ![c] = "returned"]
    /\ UNCHANGED <<tctx, sendCallback, targs, traised, sends, toolJobs, tcalls>>
    /\ UNCHANGED nonToolVars

\* the plain tool's execute raised
ToolExecuteRaises(c, exc) ==
    /\ tpc[c] = "running"
    /\ traised' = [traised EXCEPT ![c] = exc]
    /\ tres' = [tres EXCEPT ![c] = AfterRaise(exc)]
    /\ tpc' = [tpc EXCEPT ![c] = IF Caught(exc) THEN "returned" ELSE "raised"]
    /\ UNCHANGED <<tctx, sendCallback, targs, sends, toolJobs, tcalls>>
    /\ UNCHANGED nonToolVars

ToolsNext ==
    \/ SetSendCallback
    \/ \E c \in Callers, name \in ToolNames, context \in Contexts, content \in Contents :
          ExecuteTool(c, name, context, content)
    \/ \E c \in Callers : SendReturns(c)
    \/ \E c \in Callers, exc \in Raisables : SendRaises(c, exc)
    \/ \E c \in Callers : ToolExecuteReturns(c)
    \/ \E c \in Callers, exc \in Raisables : ToolExecuteRaises(c, exc)

\* ------------------------------------------------------------------------
\* CronService (pyclaw/services/cron_service.py)
\* ------------------------------------------------------------------------
\* job ids, as sequences of characters; os.urandom(8).hex() gives every new job
\* an id no job had before: the ids are handed out in this order
JobIdPool == << <<"a", "1">>, <<"a", "2">>, <<"b", "1">>, <<"b", "2">> >>
JobIds == {JobIdPool[i] : i \in 1..MaxCronOps}
NoJobId == <<>>

\* the job_id arguments of remove_job / enable_job: ids and their prefixes
IdPrefixes == {SubSeq(id, 1, n) : id \in JobIds, n \in 0..2}

\* str.startswith
StartsWith(id, prefix) ==
    Len(prefix) <= Len(id) /\ SubSeq(id, 1, Len(prefix)) = prefix

\* None in next_run_ms / last_run_ms
NoneMs == -1

\* schedule dicts: a one-shot, an interval, a malformed cron expression
Schedules ==
    {[kind |-> "at", at_ms |-> 1, every_ms |-> 0, expr |-> ""],
     [kind |-> "every", at_ms |-> 0, every_ms |-> 1, expr |-> ""],
     [kind |-> "cron", at_ms |-> 0, every_ms |-> 0, expr |-> "bad"]}
NoSchedule == [kind |-> "", at_ms |-> 0, every_ms |-> 0, expr |-> ""]

\* _compute_next_run(schedule, now_ms); the cron branch reads the clock itself
ComputeNextRun(schedule, now_ms, clock) ==
    IF schedule.kind = "at" THEN schedule.at_ms
    ELSE IF schedule.kind = "every" THEN now_ms + schedule.every_ms
    ELSE IF schedule.kind = "cron"
    THEN IF schedule.expr = "bad" THEN NoneMs ELSE clock + 1
    ELSE NoneMs

\* a job dict; name, payload, created_ms and updated_ms are left out
NoJob == [id |-> NoJobId, enabled |-> FALSE, schedule |-> NoSchedule,
          next_run_ms |-> NoneMs, last_run_ms |-> NoneMs, last_status |-> "none",
          last_error |-> "", delete_after_run |-> FALSE]
NewJob(id, schedule, clock) ==
    [id |-> id, enabled |-> TRUE, schedule |-> schedule,
     next_run_ms |-> ComputeNextRun(schedule, clock, clock),
     last_run_ms |-> NoneMs, last_status |-> "none", last_error |-> "",
     delete_after_run |-> (schedule.kind = "at")]

\* the dicts of a list of jobs, in list order: list_jobs(), and what
\* json.dumps(self._jobs) writes
Snapshot(ids, js) == [i \in 1..Len(ids) |-> js[ids[i]]]

\* _load_jobs: the list a new CronService reads from jobs.json
LoadJobs(file) == file

\* [j for j in ids if j not in drop]
RECURSIVE FilterIds(_, _)
FilterIds(ids, drop) ==
    IF ids = <<>> THEN <<>>
    ELSE IF Head(ids) \in drop THEN FilterIds(Tail(ids), drop)
    ELSE <<Head(ids)>> \o FilterIds(Tail(ids), drop)

NoRoundTrip == [phase |-> "none", id |-> NoJobId, pre |-> <<>>]

\* the locals of _check_jobs
tickLocals == <<tickNow, tickList, tickSame, tickIdx, toDelete, examined>>
SetTick(now_ms, list, same, idx, del, ex) ==
    /\ tickNow' = now_ms
    /\ tickList' = list
    /\ tickSame' = same
    /\ tickIdx' = idx
    /\ toDelete' = del
    /\ examined' = ex
NoTick == SetTick(0, <<>>, FALSE, 0, {}, <<>>)

\* a step outside _check_jobs: its locals stay while it is suspended in a
\* handler, and those of a finished call are gone
OutsideTick == IF kpc = "handler" THEN UNCHANGED tickLocals ELSE NoTick

CronInit ==
    /\ jobs = <<>>
    /\ jobOf = [id \in JobIds |-> NoJob]
    /\ jobsFile = <<>>
    /\ cnow = 0
    /\ handlerSet = FALSE
    /\ krun = "new"
    /\ kpc = "sleep"
    /\ tickNow = 0
    /\ tickList = <<>>
    /\ tickSame = FALSE
    /\ tickIdx = 0
    /\ toDelete = {}
    /\ examined = <<>>
    /\ added = 0
    /\ kops = 0
    /\ invocations = [id \in JobIds |-> 0]
    /\ deletedByTick = {}
    /\ kghost = NoRoundTrip

\* set_handler
SetHandlerCore ==
    /\ ~handlerSet
    /\ handlerSet' = TRUE
    /\ OutsideTick
    /\ kghost' = NoRoundTrip
    /\ UNCHANGED <<jobs, jobOf, jobsFile, cnow, krun, kpc, added, kops, invocations, deletedByTick>>
SetHandler == SetHandlerCore /\ UNCHANGED nonCronVars

\* start
StartCron ==
    /\ krun = "new"
    /\ krun' = "running"
    /\ OutsideTick
    /\ kghost' = NoRoundTrip
    /\ UNCHANGED <<jobs, jobOf, jobsFile, cnow, handlerSet, kpc, added, kops, invocations,
                   deletedByTick>>
    /\ UNCHANGED nonCronVars

\* stop: the loop task is cancelled, also inside the handler it awaits
StopCron ==
    /\ krun = "running"
    /\ krun' = "stopped"
    /\ kpc' = "sleep"
    /\ NoTick
    /\ kghost' = NoRoundTrip
    /\ UNCHANGED <<jobs, jobOf, jobsFile, cnow, handlerSet, added, kops, invocations, deletedByTick>>
    /\ UNCHANGED nonCronVars

\* time passes
AdvanceClockCore ==
    /\ cnow < MaxClock
    /\ cnow' = cnow + 1
    /\ OutsideTick
    /\ UNCHANGED <<jobs, jobOf, jobsFile, handlerSet, krun, kpc, added, kops, invocations,
                   deletedByTick, kghost>>
AdvanceClock == AdvanceClockCore /\ UNCHANGED nonCronVars

\* add_job(name, schedule, ...)
AddJobCore(schedule) ==
    /\ kops < MaxCronOps
    /\ kops' = kops + 1
    /\ LET id == JobIdPool[added + 1]
           js == [jobOf EXCEPT ![id] = NewJob(id, schedule, cnow)]
       IN /\ added' = added + 1
          /\ jobOf' = js
          /\ jobs' = Append(jobs, id)
          /\ jobsFile' = Snapshot(Append(jobs, id), js)
          /\ kghost' = [phase |-> "added", id |-> id, pre |-> Snapshot(jobs, jobOf)]
          /\ IF kpc = "handler"
             THEN SetTick(tickNow, IF tickSame THEN Append(tickList, id) ELSE tickList,
                          tickSame, tickIdx, toDelete, examined)
             ELSE NoTick
    /\ UNCHANGED <<cnow, handlerSet, krun, kpc, invocations, deletedByTick>>
AddJob(schedule) == AddJobCore(schedule) /\ UNCHANGED nonCronVars

\* variant: a job matches when its id and the argument share their first character
MatchesIdLoose(id, job_id) == job_id # <<>> /\ id[1] = job_id[1]
\* j["id"].startswith(job_id)
MatchesId(id, job_id) == StartsWith(id, job_id)

\* variant: remove_job never writes jobs.json
RemoveSavesNever(before, after) == FALSE
\* if len(self._jobs) < before
RemoveSaves(before, after) == Len(after) < Len(before)

\* remove_job(job_id)
RemoveJobCore(job_id) ==
    /\ kops < MaxCronOps
    /\ kops' = kops + 1
    /\ LET kept == FilterIds(jobs, {id \in JobIds : MatchesId(id, job_id)})
       IN /\ jobs' = kept
          /\ jobsFile' = IF RemoveSaves(jobs, kept) THEN Snapshot(kept, jobOf) ELSE jobsFile
    /\ kghost' = IF kghost.phase = "added" /\ job_id = kghost.id
                 THEN [kghost EXCEPT !.phase = "removed"]
                 ELSE NoRoundTrip
    /\ IF kpc = "handler"
       THEN SetTick(tickNow, tickList, FALSE, tickIdx, toDelete, examined)
       ELSE NoTick
    /\ UNCHANGED <<jobOf, cnow, handlerSet, krun, kpc, added, invocations, deletedByTick>>
RemoveJob(job_id) == RemoveJobCore(job_id) /\ UNCHANGED nonCronVars

\* the first job of self._jobs whose id starts with job_id, NoJobId if none
RECURSIVE FirstMatch(_, _)
FirstMatch(ids, job_id) ==
    IF ids = <<>> THEN NoJobId
    ELSE IF MatchesId(Head(ids), job_id) THEN Head(ids)
    ELSE FirstMatch(Tail(ids), job_id)

\* enable_job(job_id, enabled)
EnableJobCore(job_id, enabled) ==
    /\ kops < MaxCronOps
    /\ kops' = kops + 1
    /\ LET id == FirstMatch(jobs, job_id)
       IN IF id = NoJobId
          THEN UNCHANGED <<jobOf, jobsFile>>
          ELSE LET js == [jobOf EXCEPT
                             ![id].enabled = enabled,
                             ![id].next_run_ms =
                                 IF enabled THEN ComputeNextRun(jobOf[id].schedule, cnow, cnow)
                                 ELSE @]
               IN /\ jobOf' = js
                  /\ jobsFile' = Snapshot(jobs, js)
    /\ OutsideTick
    /\ kghost' = NoRoundTrip
    /\ UNCHANGED <<jobs, cnow, handlerSet, krun, kpc, added, invocations, deletedByTick>>
EnableJob(job_id, enabled) == EnableJobCore(job_id, enabled) /\ UNCHANGED nonCronVars

\* variant: a job whose next run is exactly now has to wait for the next tick
DueStrict(job, now_ms) ==
    job.enabled /\ job.next_run_ms # NoneMs /\ job.next_run_ms < now_ms
\* the two `continue` tests of _check_jobs, negated
Due(job, now_ms) ==
    job.enabled /\ job.next_run_ms # NoneMs /\ job.next_run_ms <= now_ms

\* job.get("delete_after_run")
DeleteAfterRun(job) == job.delete_after_run

\* variant: a job whose handler failed is not scheduled again
AfterRunOkOnly(job, status, error, now_ms, clock) ==
    [job EXCEPT !.last_status = status, !.last_error = error, !.last_run_ms = now_ms,
                !.next_run_ms = IF DeleteAfterRun(job) \/ status = "error" THEN @
                                ELSE ComputeNextRun(job.schedule, now_ms, clock)]
\* the end of the loop body, after the handler: last_run_ms, then removal or
\* the next run
AfterRun(job, status, error, now_ms, clock) ==
    [job EXCEPT !.last_status = status, !.last_error = error, !.last_run_ms = now_ms,
                !.next_run_ms = IF DeleteAfterRun(job) THEN @
                                ELSE ComputeNextRun(job.schedule, now_ms, clock)]

\* what the loop saw of a job when it reached it, and the handler calls it made
Examined(job, hasHandler, calls) ==
    [id |-> job.id, enabled |-> job.enabled, next_run_ms |-> job.next_run_ms,
     handler |-> hasHandler, invoked |-> calls]

\* `for job in self._jobs` from position i on, up to the next `await
\* self._handler(job)` or to the end of the list
RECURSIVE CronScan(_, _, _, _, _, _)
CronScan(i, list, js, del, ex, now_ms) ==
    IF i > Len(list)
    THEN [idx |-> i, jobOf |-> js, toDelete |-> del, examined |-> ex, awaiting |-> FALSE]
    ELSE LET job == js[list[i]]
         IN IF ~Due(job, now_ms)
            THEN CronScan(i + 1, list, js, del, Append(ex, Examined(job, handlerSet, 0)),
                          now_ms)
            ELSE LET marked == [job EXCEPT !.next_run_ms = NoneMs]
                 IN IF handlerSet
                    THEN [idx |-> i, jobOf |-> [js EXCEPT ![job.id] = marked],
                          toDelete |-> del,
                          examined |-> Append(ex, Examined(job, TRUE, 1)),
                          awaiting |-> TRUE]
                    ELSE CronScan(i + 1, list,
                            [js EXCEPT ![job.id] =
                                AfterRun(marked, "error", "No handler configured",
                                         now_ms, cnow)],
                            IF DeleteAfterRun(job) THEN del \cup {job.id} ELSE del,
                            Append(ex, Examined(job, FALSE, 0)), now_ms)

\* the part of _check_jobs that the result r of a scan leads to: suspended in
\* the handler, or through the removal of the one-shot jobs and _save_jobs
ContinueTick(r, now_ms, list, same, ids) ==
    /\ jobOf' = r.jobOf
    /\ SetTick(now_ms, list, same, r.idx, IF r.awaiting THEN r.toDelete ELSE {}, r.examined)
    /\ IF r.awaiting
       THEN /\ kpc' = "handler"
            /\ invocations' = [invocations EXCEPT ![list[r.idx]] = IF @ < 2 THEN @ + 1 ELSE @]
            /\ UNCHANGED <<jobs, jobsFile, deletedByTick>>
       ELSE LET kept == IF r.toDelete # {} THEN FilterIds(ids, r.toDelete) ELSE ids
            IN /\ kpc' = "sleep"
               /\ jobs' = kept
               /\ jobsFile' = Snapshot(kept, r.jobOf)
               /\ deletedByTick' = deletedByTick \cup (r.toDelete \cap Range(ids))
               /\ UNCHANGED invocations

\* _run_loop: the sleep is over and _check_jobs runs to its first await
TickStart ==
    /\ krun = "running"
    /\ kpc = "sleep"
    /\ ContinueTick(CronScan(1, jobs, jobOf, {}, <<>>, cnow), cnow, jobs, TRUE, jobs)
    /\ kghost' = NoRoundTrip
    /\ UNCHANGED <<cnow, handlerSet, krun, added, kops>>
    /\ UNCHANGED nonCronVars

\* the awaited handler returned
HandlerReturns ==
    /\ kpc = "handler"
    /\ LET id == tickList[tickIdx]
           job == jobOf[id]
           js == [jobOf EXCEPT ![id] = AfterRun(job, "ok", "", tickNow, cnow)]
           del == IF DeleteAfterRun(job) THEN toDelete \cup {id} ELSE toDelete
       IN ContinueTick(CronScan(tickIdx + 1, tickList, js, del, examined, tickNow),
                       tickNow, tickList, tickSame, jobs)
    /\ kghost' = NoRoundTrip
    /\ UNCHANGED <<cnow, handlerSet, krun, added, kops>>
    /\ UNCHANGED nonCronVars

\* the awaited handler raised exc
HandlerRaises(exc) ==
    /\ kpc = "handler"
    /\ LET id == tickList[tickIdx]
           job == jobOf[id]
           js == [jobOf EXCEPT ![id] = AfterRun(job, "error", exc.text, tickNow, cnow)]
           del == IF DeleteAfterRun(job) THEN toDelete \cup {id} ELSE toDelete
       IN IF Caught(exc)
          THEN /\ ContinueTick(CronScan(tickIdx + 1, tickList, js, del, examined, tickNow),
                               tickNow, tickList, tickSame, jobs)
               /\ UNCHANGED krun
          ELSE /\ krun' = "dead"
               /\ kpc' = "sleep"
               /\ NoTick
               /\ UNCHANGED <<jobs, jobOf, jobsFile, invocations, deletedByTick>>
    /\ kghost' = NoRoundTrip
    /\ UNCHANGED <<cnow, handlerSet, added, kops>>
    /\ UNCHANGED nonCronVars

CronNext ==
    \/ SetHandler
    \/ StartCron
    \/ StopCron
    \/ AdvanceClock
    \/ \E schedule \in Schedules : AddJob(schedule)
    \/ \E job_id \in IdPrefixes : RemoveJob(job_id)
    \/ \E job_id \in IdPrefixes, enabled \in BOOLEAN : EnableJob(job_id, enabled)
    \/ TickStart
    \/ HandlerReturns
    \/ \E exc \in Raisables : HandlerRaises(exc)

\* ------------------------------------------------------------------------
\* HeartbeatService (pytoclaw/services/heartbeat.py), built with enabled=True
\* ------------------------------------------------------------------------
\* interval_minutes given to the constructor, and its default
IntervalMinutes == {-1, 0, 1, 5, 6}
DefaultIntervalMinutes == 30

\* variant: the configured interval is taken as it is
IntervalUnclamped(interval_minutes) ==
    IF interval_minutes > 0 THEN interval_minutes * 60 ELSE 0
\* self._interval = max(interval_minutes, 5) * 60
Interval(interval_minutes) ==
    (IF interval_minutes > 5 THEN interval_minutes ELSE 5) * 60

\* the step of the heartbeat clock, and where the elapsed-time counters stop
ClockStep == 60
SinceCap == 420

\* HeartbeatService(workspace, interval_minutes, enabled=True)
HeartbeatBuilt(interval_minutes) ==
    /\ hrun = "new"
    /\ hpc = "sleep"
    /\ hbHandlerSet = FALSE
    /\ hbLog = ""
    /\ hbInterval = Interval(interval_minutes)
    /\ hbSleepLeft = 0
    /\ hbSinceStart = 0
    /\ hbSinceInvoke = NotSet

HeartbeatInit == HeartbeatBuilt(DefaultIntervalMinutes)

\* set_handler
HbSetHandler ==
    /\ ~hbHandlerSet
    /\ hbHandlerSet' = TRUE
    /\ UNCHANGED <<hrun, hpc, hbLog>>
    /\ UNCHANGED nonHeartbeatVars

\* start, with no loop task alive; _ensure_heartbeat_file writes a file of
\* comments when there is none
HbStartCore ==
    /\ hrun # "running"
    /\ hrun' = "running"
    /\ UNCHANGED <<hpc, hbHandlerSet, hbLog>>

\* stop: the loop task is cancelled, also inside the handler it awaits
HbStop ==
    /\ hrun = "running"
    /\ hrun' = "stopped"
    /\ hpc' = "sleep"
    /\ UNCHANGED <<hbHandlerSet, hbLog>>
    /\ UNCHANGED nonHeartbeatVars

\* _run_loop: the sleep is over and _execute_heartbeat runs to its await, or
\* returns early without handler; active: HEARTBEAT.md, as read now, has a
\* line that is not a comment (without one the call returns and changes nothing)
HbTickCore(active) ==
    /\ hrun = "running"
    /\ hpc = "sleep"
    /\ IF ~active THEN UNCHANGED <<hpc, hbLog>>
       ELSE IF ~hbHandlerSet
       THEN hbLog' = "No heartbeat handler configured" /\ UNCHANGED hpc
       ELSE hpc' = "handler" /\ UNCHANGED hbLog
    /\ UNCHANGED <<hrun, hbHandlerSet>>

\* the awaited handler returned
HbHandlerReturnsCore ==
    /\ hpc = "handler"
    /\ hpc' = "sleep"
    /\ UNCHANGED <<hrun, hbHandlerSet, hbLog>>

\* the awaited handler raised exc: `except Exception` logs it and the loop
\* goes on, any other exception ends the loop task
HbHandlerRaisesCore(exc) ==
    /\ hpc = "handler"
    /\ hpc' = "sleep"
    /\ IF Caught(exc)
       THEN /\ hbLog' = "Heartbeat execution failed"
            /\ UNCHANGED hrun
       ELSE /\ hrun' = "dead"
            /\ UNCHANGED hbLog
    /\ UNCHANGED hbHandlerSet

\* the steps of the loop with the time they take left out
HbStart == HbStartCore /\ UNCHANGED nonHeartbeatVars
HbTick(active) == HbTickCore(active) /\ UNCHANGED nonHeartbeatVars
HbHandlerReturns == HbHandlerReturnsCore /\ UNCHANGED nonHeartbeatVars
HbHandlerRaises(exc) == HbHandlerRaisesCore(exc) /\ UNCHANGED nonHeartbeatVars

\* the same steps on the clock: the loop sleeps self._interval seconds before
\* every _execute_heartbeat
HbStartTimed ==
    /\ HbStartCore
    /\ hbSleepLeft' = hbInterval
    /\ hbSinceStart' = 0
    /\ UNCHANGED <<hbInterval, hbSinceInvoke>>
    /\ UNCHANGED outsideHeartbeat

HbTickTimed(active) ==
    /\ hbSleepLeft = 0
    /\ HbTickCore(active)
    /\ IF active /\ hbHandlerSet
       THEN hbSinceInvoke' = 0 /\ UNCHANGED hbSleepLeft
       ELSE hbSleepLeft' = hbInterval /\ UNCHANGED hbSinceInvoke
    /\ UNCHANGED <<hbInterval, hbSinceStart>>
    /\ UNCHANGED outsideHeartbeat

HbHandlerReturnsTimed ==
    /\ HbHandlerReturnsCore
    /\ hbSleepLeft' = hbInterval
    /\ UNCHANGED <<hbInterval, hbSinceStart, hbSinceInvoke>>
    /\ UNCHANGED outsideHeartbeat

HbHandlerRaisesTimed(exc) ==
    /\ HbHandlerRaisesCore(exc)
    /\ hbSleepLeft' = IF Caught(exc) THEN hbInterval ELSE hbSleepLeft
    /\ UNCHANGED <<hbInterval, hbSinceStart, hbSinceInvoke>>
    /\ UNCHANGED outsideHeartbeat

\* ClockStep seconds pass
HbPass ==
    /\ hbSleepLeft' = IF hrun = "running" /\ hpc = "sleep" /\ hbSleepLeft > ClockStep
                      THEN hbSleepLeft - ClockStep
                      ELSE IF hrun = "running" /\ hpc = "sleep" THEN 0 ELSE hbSleepLeft
    /\ hbSinceStart' = IF hbSinceStart + ClockStep < SinceCap
                       THEN hbSinceStart + ClockStep ELSE SinceCap
    /\ hbSinceInvoke' = IF hbSinceInvoke = NotSet THEN NotSet
                        ELSE IF hbSinceInvoke + ClockStep < SinceCap
                        THEN hbSinceInvoke + ClockStep ELSE SinceCap
    /\ UNCHANGED hbInterval
    /\ UNCHANGED heartbeatVars
    /\ UNCHANGED outsideHeartbeat

HeartbeatNext ==
    \/ HbSetHandler
    \/ HbStartTimed
    \/ HbStop
    \/ \E active \in BOOLEAN : HbTickTimed(active)
    \/ HbHandlerReturnsTimed
    \/ \E exc \in Raisables : HbHandlerRaisesTimed(exc)
    \/ HbPass

\* the two scheduler loops side by side
SchedNext ==
    \/ SetHandler
    \/ StartCron
    \/ AdvanceClock
    \/ \E schedule \in Schedules : AddJob(schedule)
    \/ TickStart
    \/ HandlerReturns
    \/ \E exc \in Raisables : HandlerRaises(exc)
    \/ HbSetHandler
    \/ HbStart
    \/ \E active \in BOOLEAN : HbTick(active)
    \/ HbHandlerReturns
    \/ \E exc \in Raisables : HbHandlerRaises(exc)

\* ------------------------------------------------------------------------
\* BaseChannel.is_allowed (channels/base.py)
\* ------------------------------------------------------------------------
\* identifiers are sequences of characters
MaxSenderLen == 3     \* longest sender_id handed to is_allowed
MaxAllow == 2         \* longest allow_list of a channel

SenderChars == {"@", "x", "y", "|"}
SenderIds == SeqsUpTo(SenderChars, MaxSenderLen)

\* allowlist entries: "x", "@x", "@@x", "y" and the empty entry
AllowEntries == {<<"x">>, <<"@", "x">>, <<"@", "@", "x">>, <<"y">>, <<>>}
AllowLists == SeqsUpTo(AllowEntries, MaxAllow)

\* str.split(sep): the pieces between the separators, in order
RECURSIVE Split(_, _)
Split(s, sep) ==
    IF \A i \in DOMAIN s : s[i] # sep THEN <<s>>
    ELSE LET i == CHOOSE k \in DOMAIN s :
                      s[k] = sep /\ \A j \in 1..(k - 1) : s[j] # sep
         IN <<SubSeq(s, 1, i - 1)>> \o Split(SubSeq(s, i + 1, Len(s)), sep)

LStripNothing(s, ch) == s

\* str.lstrip(ch): s without its leading run of ch
RECURSIVE LStrip(_, _)
LStrip(s, ch) ==
    IF s # <<>> /\ s[1] = ch THEN LStrip(Tail(s), ch) ELSE s

AllowsAll(allow_list, sender_id) == TRUE

\* BaseChannel.is_allowed
IsAllowed(allow_list, sender_id) ==
    IF allow_list = <<>> THEN TRUE
    ELSE LET parts == Split(sender_id, "|")
         IN \E i \in DOMAIN allow_list :
                LET allowed_clean == LStrip(allow_list[i], "@")
                IN \E j \in DOMAIN parts : LStrip(parts[j], "@") = allowed_clean

\* a channel built with allow_list, about to be asked about sender_id
AllowBuilt(allow_list, sender_id) ==
    alCall = [called |-> FALSE, allow_list |-> allow_list, sender_id |-> sender_id,
              result |-> FALSE]

AllowInit == AllowBuilt(<<>>, <<>>)

IsAllowedCall ==
    /\ ~alCall.called
    /\ alCall' = [alCall EXCEPT !.called = TRUE,
                                !.result = IsAllowed(alCall.allow_list, alCall.sender_id)]
    /\ UNCHANGED nonAllowVars

AllowNext == IsAllowedCall

\* ------------------------------------------------------------------------
\* BaseChannel.handle_message (channels/base.py)
\* ------------------------------------------------------------------------
MaxInbound == 2       \* handle_message calls over the whole run

ChannelNames == {"telegram", "whatsapp"}

\* config.allow_from of each adapter: telegram open to all, whatsapp to "@x"
AllowFrom(name) == IF name = "telegram" THEN <<>> ELSE << <<"@", "x">> >>

InboundSenders == {<<"x">>, <<"y">>, <<"y", "|", "@", "x">>, <<>>}
ChatIds == {"c1", "c2"}

InboundInit ==
    /\ inboundLog = <<>>
    /\ hcalls = 0

\* InboundMessage(channel=self._name, sender_id=..., chat_id=..., content=...)
InboundMessage(name, sender_id, chat_id, content) ==
    [channel |-> name, sender_id |-> sender_id, chat_id |-> chat_id, content |-> content]

\* BaseChannel.handle_message of the adapter called name
HandleMessage(name, sender_id, chat_id, content) ==
    /\ hcalls < MaxInbound
    /\ hcalls' = hcalls + 1
    /\ IF ~IsAllowed(AllowFrom(name), sender_id)
       THEN UNCHANGED inboundLog
       ELSE inboundLog' = Append(inboundLog,
                                 InboundMessage(name, sender_id, chat_id, content))
    /\ UNCHANGED nonInboundVars

InboundNext ==
    \E name \in ChannelNames, sender_id \in InboundSenders, chat_id \in ChatIds,
       content \in Contents :
        HandleMessage(name, sender_id, chat_id, content)

\* ------------------------------------------------------------------------
\* ChannelManager (channels/base.py) and the outbound dispatcher (gateway_cmd.py)
\* ------------------------------------------------------------------------
MaxMgrCalls == 2      \* start_all and stop_all calls over the whole run
MaxOutbound == 2      \* outbound messages published over the whole run

\* the channels an outbound message may name: "slack" is never registered
OutboundTargets == ChannelNames \cup {"slack"}

\* what a start, stop or send of an adapter may do: return, or raise
Outcomes == {NoRaise} \cup Raisables

\* RuntimeError("whatsapp connection not established")
NotEstablished == [base |-> "Exception", text |-> "connection not established"]

ChannelInit ==
    /\ channels = <<"telegram", "whatsapp">>
    /\ chRunning = [n \in ChannelNames |-> FALSE]
    /\ chConnected = [n \in ChannelNames |-> FALSE]
    /\ mpc = "idle"
    /\ midx = 1
    /\ mstep = "call"
    /\ mlast = "none"
    /\ mTargets = {}
    /\ mAttempted = {}
    /\ mFailed = {}
    /\ mRaised = NoRaise
    /\ mcalls = 0
    /\ chSends = [n \in ChannelNames |-> 0]
    /\ outQ = <<>>
    /\ outCount = 0
    /\ dpc = "running"
    /\ dpassed = 0

dispatcherVars == <<chSends, outQ, outCount, dpc, dpassed>>

\* variant: start_all and stop_all without their try / except
ManagerCatchesNothing(exc) == FALSE
\* `except Exception:` of start_all and stop_all
ManagerCatches(exc) == exc.base = "Exception"

\* the next position at or after i whose channel is running: stop_all skips
\* the channels that are not
NextRunning(run, i) ==
    LET later == {j \in i..Len(channels) : run[channels[j]]}
    IN IF later = {} THEN Len(channels) + 1
       ELSE CHOOSE j \in later : \A k \in later : j <= k

\* ChannelManager.start_all: the call begins
StartAll ==
    /\ mpc = "idle"
    /\ mcalls < MaxMgrCalls
    /\ mcalls' = mcalls + 1
    /\ mlast' = "start_all"
    /\ mTargets' = Range(channels)
    /\ mAttempted' = {}
    /\ mFailed' = {}
    /\ mRaised' = NoRaise
    /\ midx' = 1
    /\ mpc' = IF channels = <<>> THEN "idle" ELSE "start_all"
    /\ UNCHANGED <<channels, chRunning, chConnected, mstep, dispatcherVars>>
    /\ UNCHANGED nonChannelVars

\* one round of the loop of start_all: `await ch.start()` returns or raises
StartOne(outcome) ==
    /\ mpc = "start_all"
    /\ LET name == channels[midx]
           survives == outcome = NoRaise \/ ManagerCatches(outcome)
       IN /\ mAttempted' = mAttempted \cup {name}
          /\ IF outcome = NoRaise
             THEN /\ chRunning' = [chRunning EXCEPT ![name] = TRUE]
                  /\ chConnected' = [chConnected EXCEPT ![name] = TRUE]
                  /\ UNCHANGED mFailed
             ELSE /\ mFailed' = mFailed \cup {outcome.base}
                  /\ UNCHANGED <<chRunning, chConnected>>
          /\ IF survives
             THEN /\ midx' = midx + 1
                  /\ mpc' = IF midx + 1 > Len(channels) THEN "idle" ELSE "start_all"
                  /\ UNCHANGED mRaised
             ELSE /\ mpc' = "idle"
                  /\ mRaised' = outcome
                  /\ UNCHANGED midx
    /\ UNCHANGED <<channels, mstep, mlast, mTargets, mcalls, dispatcherVars>>
    /\ UNCHANGED nonChannelVars

\* ChannelManager.stop_all: the call begins
StopAll ==
    /\ mpc = "idle"
    /\ mcalls < MaxMgrCalls
    /\ mcalls' = mcalls + 1
    /\ mlast' = "stop_all"
    /\ mTargets' = {n \in Range(channels) : chRunning[n]}
    /\ mAttempted' = {}
    /\ mFailed' = {}
    /\ mRaised' = NoRaise
    /\ midx' = NextRunning(chRunning, 1)
    /\ mstep' = "call"
    /\ mpc' = IF NextRunning(chRunning, 1) > Len(channels) THEN "idle" ELSE "stop_all"
    /\ UNCHANGED <<channels, chRunning, chConnected, dispatcherVars>>
    /\ UNCHANGED nonChannelVars

\* stop_all calls ch.stop(): the adapter closes its connection and waits for
\* the close to finish, _running still set
StopCall ==
    /\ mpc = "stop_all"
    /\ mstep = "call"
    /\ mstep' = "await"
    /\ mAttempted' = mAttempted \cup {channels[midx]}
    /\ chConnected' = [chConnected EXCEPT ![channels[midx]] = FALSE]
    /\ UNCHANGED <<channels, chRunning, mpc, midx, mlast, mTargets, mFailed, mRaised, mcalls,
                   dispatcherVars>>
    /\ UNCHANGED nonChannelVars

\* `await ch.stop()` returns or raises
StopReturn(outcome) ==
    /\ mpc = "stop_all"
    /\ mstep = "await"
    /\ mstep' = "call"
    /\ LET name == channels[midx]
           run == IF outcome = NoRaise THEN [chRunning EXCEPT ![name] = FALSE]
                  ELSE chRunning
           survives == outcome = NoRaise \/ ManagerCatches(outcome)
       IN /\ chRunning' = run
          /\ mFailed' = IF outcome = NoRaise THEN mFailed ELSE mFailed \cup {outcome.base}
          /\ IF survives
             THEN /\ midx' = NextRunning(run, midx + 1)
                  /\ mpc' = IF NextRunning(run, midx + 1) > Len(channels)
                            THEN "idle" ELSE "stop_all"
                  /\ UNCHANGED mRaised
             ELSE /\ mpc' = "idle"
                  /\ mRaised' = outcome
                  /\ UNCHANGED midx
    /\ UNCHANGED <<channels, chConnected, mlast, mTargets, mAttempted, mcalls, dispatcherVars>>
    /\ UNCHANGED nonChannelVars

\* variant: send_to_channel that does not ask is_running()
Registered(name) == name \in Range(channels)
\* `ch = self._channels.get(channel_name)`, `if ch and ch.is_running()`
Deliverable(name) == name \in Range(channels) /\ chRunning[name]

\* what `await ch.send(...)` raises: an adapter without a connection raises
\* RuntimeError, a connected one returns or fails as the network decides
AdapterSendRaises(name, outcome) ==
    IF ~chConnected[name] THEN NotEstablished ELSE outcome

\* what ChannelManager.send_to_channel raises: it has no try / except
SendToChannelRaises(name, outcome) ==
    IF Deliverable(name) THEN AdapterSendRaises(name, outcome) ELSE NoRaise

\* bus.publish_outbound of a message for the channel name
PublishOutbound(name) ==
    /\ outCount < MaxOutbound
    /\ outCount' = outCount + 1
    /\ outQ' = Append(outQ, name)
    /\ UNCHANGED <<channels, chRunning, chConnected, mpc, midx, mstep, mlast, mTargets,
                   mAttempted, mFailed, mRaised, mcalls, chSends, dpc, dpassed>>
    /\ UNCHANGED nonChannelVars

\* one round of _dispatch_outbound: consume_outbound returns a message and
\* send_to_channel is awaited; an exception out of it ends the task
Dispatch(outcome) ==
    /\ dpc = "running"
    /\ outQ # <<>>
    /\ outQ' = Tail(outQ)
    /\ dpassed' = dpassed + 1
    /\ chSends' = IF Deliverable(Head(outQ))
                  THEN [chSends EXCEPT ![Head(outQ)] = @ + 1]
                  ELSE chSends
    /\ dpc' = IF SendToChannelRaises(Head(outQ), outcome) = NoRaise
              THEN "running" ELSE "dead"
    /\ UNCHANGED <<channels, chRunning, chConnected, mpc, midx, mstep, mlast, mTargets,
                   mAttempted, mFailed, mRaised, mcalls, outCount>>
    /\ UNCHANGED nonChannelVars

\* dispatch_task.cancel() at shutdown
CancelDispatcher ==
    /\ dpc = "running"
    /\ dpc' = "cancelled"
    /\ UNCHANGED <<channels, chRunning, chConnected, mpc, midx, mstep, mlast, mTargets,
                   mAttempted, mFailed, mRaised, mcalls, chSends, outQ, outCount, dpassed>>
    /\ UNCHANGED nonChannelVars

ChannelNext ==
    \/ StartAll
    \/ \E outcome \in Outcomes : StartOne(outcome)
    \/ StopAll
    \/ StopCall
    \/ \E outcome \in Outcomes : StopReturn(outcome)
    \/ \E name \in OutboundTargets : PublishOutbound(name)
    \/ \E outcome \in Outcomes : Dispatch(outcome)
    \/ CancelDispatcher

\* ------------------------------------------------------------------------
\* AgentRegistry.can_spawn_subagent (agent/registry.py), SpawnTool (tools/spawn_tool.py)
\* ------------------------------------------------------------------------
AgentIds == {"helper", "other"}

\* AgentConfig.subagents: None, or a SubagentsConfig with its allow_agents
NoSubagents == [present |-> FALSE, allow_agents |-> <<>>]
SubagentsConfigs ==
    {NoSubagents} \cup {[present |-> TRUE, allow_agents |-> l] : l \in SeqsUpTo(AgentIds, MaxAllow)}

\* the agent_id argument of a spawn: "" when the call names no agent
SpawnTargets == AgentIds \cup {""}
SpawnTasks == {"", "do it"}

CanSpawnAny(registered, subagents, target_id) == TRUE

\* AgentRegistry.can_spawn_subagent(parent_id, target_id): registered tells
\* whether parent_id is in self._agents, subagents is the parent's section
CanSpawnSubagent(registered, subagents, target_id) ==
    IF ~registered \/ ~subagents.present THEN FALSE
    ELSE IF subagents.allow_agents = <<>> THEN TRUE
    ELSE target_id \in Range(subagents.allow_agents)

\* a spawn tool of a parent agent, about to be executed
SpawnBuilt(registered, subagents, checker, task, agent_id) ==
    spCall = [called |-> FALSE, registered |-> registered, subagents |-> subagents,
              checker |-> checker, task |-> task, agent_id |-> agent_id,
              is_error |-> FALSE]

SpawnInit == SpawnBuilt(TRUE, NoSubagents, FALSE, "", "")

\* SpawnTool.execute: the checker, when one is set, asks the registry about the parent
SpawnExecute ==
    /\ ~spCall.called
    /\ spCall' = [spCall EXCEPT
           !.called = TRUE,
           !.is_error =
               IF spCall.task = "" THEN TRUE
               ELSE IF spCall.agent_id # "" /\ spCall.checker
                    THEN ~CanSpawnSubagent(spCall.registered, spCall.subagents,
                                           spCall.agent_id)
                    ELSE FALSE]
    /\ UNCHANGED nonSpawnVars

SpawnNext == SpawnExecute

\* ------------------------------------------------------------------------
\* ToolRegistry.execute with an AsyncTool (tools/registry.py, tools/spawn_tool.py)
\* ------------------------------------------------------------------------
MaxAsyncCalls == 3    \* execute calls of the async tool over the whole run

\* async_callback arguments: None, or the callback bound to a turn's session
NoCallback == "none"
Callbacks == {NoCallback, "cb1", "cb2"}

AsyncInit ==
    /\ heldCallback = NoCallback
    /\ apc = [c \in Callers |-> "idle"]
    /\ apassed = [c \in Callers |-> NoCallback]
    /\ acalls = 0

\* `if isinstance(tool, AsyncTool) and async_callback: tool.set_callback(async_callback)`
CallbackAfterExecute(held, async_callback) ==
    IF async_callback # NoCallback THEN async_callback ELSE held

\* ToolRegistry.execute(name, args, channel, chat_id, async_callback) of the
\* async tool by caller c, up to the await of tool.execute
ExecuteAsync(c, async_callback) ==
    /\ apc[c] = "idle"
    /\ acalls < MaxAsyncCalls
    /\ acalls' = acalls + 1
    /\ heldCallback' = CallbackAfterExecute(heldCallback, async_callback)
    /\ apassed' = [apassed EXCEPT ![c] = async_callback]
    /\ apc' = [apc EXCEPT ![c] = "running"]
    /\ UNCHANGED nonAsyncVars

\* tool.execute of caller c returned
AsyncReturns(c) ==
    /\ apc[c] = "running"
    /\ apc' = [apc EXCEPT ![c] = "idle"]
    /\ UNCHANGED <<heldCallback, apassed, acalls>>
    /\ UNCHANGED nonAsyncVars

AsyncNext ==
    \/ \E c \in Callers, async_callback \in Callbacks : ExecuteAsync(c, async_callback)
    \/ \E c \in Callers : AsyncReturns(c)

\* ------------------------------------------------------------------------
\* HeartbeatService: start, stop and the loop tasks they make and cancel
\* ------------------------------------------------------------------------
MaxStarts == 3    \* calls of start() that create a loop task

LoopTasks == 1..MaxStarts
NoTask == 0

\* a loop task: not made yet; made by ensure_future and not yet run; in
\* asyncio.sleep; awaiting the handler; returned; cancelled; ended by an
\* exception that `except Exception` lets through
TaskStates == {"none", "created", "sleep", "handler", "done", "cancelled", "dead"}

MaxLines == 2     \* lines of HEARTBEAT.md

\* lines of HEARTBEAT.md, as sequences of pieces: a blank, the comment marks
\* "#" and "<!--", and task text
HeartbeatLines == {<<>>, <<" ">>, <<"#", "t">>, <<" ", "#">>, <<"<!--", "t">>,
                   <<"t">>, <<" ", "t">>, <<"t", "#">>}
\* what _read_heartbeat returns, split into lines; no line when the file is
\* missing or empty
HeartbeatContents == UNION {[1..n -> HeartbeatLines] : n \in 0..MaxLines}

\* str.strip()
RECURSIVE StripLeft(_)
StripLeft(line) ==
    IF line # <<>> /\ Head(line) = " " THEN StripLeft(Tail(line)) ELSE line
RECURSIVE StripRight(_)
StripRight(line) ==
    IF line # <<>> /\ line[Len(line)] = " "
    THEN StripRight(SubSeq(line, 1, Len(line) - 1)) ELSE line
StripLine(line) == StripRight(StripLeft(line))

\* variant: only blank lines are left out
ActiveLineAnyText(line) == StripLine(line) # <<>>
\* line.strip() and not line.strip().startswith("#")
\*              and not line.strip().startswith("<!--")
ActiveLine(line) ==
    /\ StripLine(line) # <<>>
    /\ Head(StripLine(line)) # "#"
    /\ Head(StripLine(line)) # "<!--"

\* _execute_heartbeat: active_lines is not empty
HasActiveLines(content) == \E i \in 1..Len(content) : ActiveLine(content[i])

\* HeartbeatService(workspace, interval_minutes, enabled)
ServiceBuilt(enabled) ==
    /\ svcEnabled = enabled
    /\ svcRunning = FALSE
    /\ svcHandlerSet = FALSE
    /\ svcTask = NoTask
    /\ loopTasks = [t \in LoopTasks |-> "none"]

\* the constructor's default: enabled = False
ServiceInit == ServiceBuilt(FALSE)

\* set_handler
ServiceSetHandler ==
    /\ ~svcHandlerSet
    /\ svcHandlerSet' = TRUE
    /\ UNCHANGED <<svcEnabled, svcRunning, svcTask, loopTasks>>
    /\ UNCHANGED nonSvcVars

\* variant: start() does not look at _enabled
StartsAlways(enabled) == TRUE
\* start: `if not self._enabled: return`
Starts(enabled) == enabled

\* start: a disabled service returns at once; otherwise _running is set and a
\* new loop task replaces the one self._task named, which is left alive
ServiceStart ==
    /\ svcTask < MaxStarts
    /\ IF Starts(svcEnabled)
       THEN /\ svcRunning' = TRUE
            /\ svcTask' = svcTask + 1
            /\ loopTasks' = [loopTasks EXCEPT ![svcTask + 1] = "created"]
       ELSE UNCHANGED <<svcRunning, svcTask, loopTasks>>
    /\ UNCHANGED <<svcEnabled, svcHandlerSet>>
    /\ UNCHANGED nonSvcVars

\* cancel() of a task: one that has not finished ends at the await it is in
Cancelled(state) ==
    IF state \in {"created", "sleep", "handler"} THEN "cancelled" ELSE state

\* stop: _running = False, and the task self._task names is cancelled
ServiceStop ==
    /\ svcRunning' = FALSE
    /\ loopTasks' = IF svcTask = NoTask THEN loopTasks
                    ELSE [loopTasks EXCEPT ![svcTask] = Cancelled(@)]
    /\ UNCHANGED <<svcEnabled, svcHandlerSet, svcTask>>
    /\ UNCHANGED nonSvcVars

\* `while self._running:` at the top of the loop
LoopTop(running) == IF running THEN "sleep" ELSE "done"

\* _run_loop: the task runs for the first time
RunLoopBegins(t) ==
    /\ loopTasks[t] = "created"
    /\ loopTasks' = [loopTasks EXCEPT ![t] = LoopTop(svcRunning)]
    /\ UNCHANGED <<svcEnabled, svcRunning, svcHandlerSet, svcTask>>
    /\ UNCHANGED nonSvcVars

\* variant: the loop does not look at _running again after its sleep
AfterSleepUnchecked(running, active, has_handler) ==
    IF active /\ has_handler THEN "handler" ELSE LoopTop(running)
\* _run_loop after asyncio.sleep: `if not self._running: break`, then
\* _execute_heartbeat, which returns early without an active line or without
\* handler and awaits the handler otherwise
AfterSleep(running, active, has_handler) ==
    IF ~running THEN "done"
    ELSE IF active /\ has_handler THEN "handler"
    ELSE LoopTop(running)

\* the sleep of task t is over; content: the lines of HEARTBEAT.md as read now
RunLoopWakes(t, content) ==
    /\ loopTasks[t] = "sleep"
    /\ loopTasks' = [loopTasks EXCEPT
                        ![t] = AfterSleep(svcRunning, HasActiveLines(content), svcHandlerSet)]
    /\ UNCHANGED <<svcEnabled, svcRunning, svcHandlerSet, svcTask>>
    /\ UNCHANGED nonSvcVars

\* the handler task t awaits returned (NoRaise) or raised exc: `except
\* Exception` logs the exception and the loop goes on, any other exception
\* ends the task
RunLoopHandlerEnds(t, exc) ==
    /\ loopTasks[t] = "handler"
    /\ loopTasks' = [loopTasks EXCEPT
                        ![t] = IF exc = NoRaise \/ Caught(exc) THEN LoopTop(svcRunning) ELSE "dead"]
    /\ UNCHANGED <<svcEnabled, svcRunning, svcHandlerSet, svcTask>>
    /\ UNCHANGED nonSvcVars

ServiceNext ==
    \/ ServiceSetHandler
    \/ ServiceStart
    \/ ServiceStop
    \/ \E t \in LoopTasks : RunLoopBegins(t)
    \/ \E t \in LoopTasks, content \in HeartbeatContents : RunLoopWakes(t, content)
    \/ \E t \in LoopTasks, exc \in Raisables \cup {NoRaise} : RunLoopHandlerEnds(t, exc)

\* ------------------------------------------------------------------------
\* TelegramChannel._on_message (channels/telegram.py)
\* ------------------------------------------------------------------------
MaxUpdates == 2       \* updates handed to _on_message over the whole run

\* user.id as a string, and user.username (empty when the user has none)
UserIds == {<<"1">>, <<"2">>}
Usernames == {<<>>, <<"x">>, <<"y">>}

\* entries of config.allow_from: a numeric id, "x", "@x" and "y"
TelegramAllowEntries == {<<"1">>, <<"x">>, <<"@", "x">>, <<"y">>}
TelegramAllowLists == SeqsUpTo(TelegramAllowEntries, MaxAllow)

NoUpdate == [called |-> FALSE, user_id |-> <<>>, username |-> <<>>, published |-> FALSE]

\* TelegramChannel(config, bus): BaseChannel.__init__("telegram", ..., config.allow_from)
TelegramBuilt(allow_from) ==
    /\ tgAllow = allow_from
    /\ tgLog = <<>>
    /\ tgLast = NoUpdate
    /\ tgCalls = 0

TelegramInit == TelegramBuilt(<<>>)

\* sender_id = str(user.id), or f"{user.id}|{user.username}" when there is a username
CompoundSenderId(user_id, username) ==
    IF username # <<>> THEN user_id \o <<"|">> \o username ELSE user_id

\* variant: handle_message is given the id the allowlist check was made with
HandledSenderIdCompound(user_id, username) == CompoundSenderId(user_id, username)
\* handle_message(sender_id=str(user.id), ...)
HandledSenderId(user_id, username) == user_id

\* `if not content: content = "[empty message]"`
MessageContent(text) == IF text = "" THEN "[empty message]" ELSE text

\* _on_message for an update with a message and a user: the allowlist check
\* on the compound id, then BaseChannel.handle_message, which checks the id
\* it is given and publishes
OnMessage(user_id, username, chat_id, text) ==
    /\ tgCalls < MaxUpdates
    /\ tgCalls' = tgCalls + 1
    /\ LET passes == /\ IsAllowed(tgAllow, CompoundSenderId(user_id, username))
                     /\ IsAllowed(tgAllow, HandledSenderId(user_id, username))
       IN /\ tgLog' = IF passes
                      THEN Append(tgLog, InboundMessage("telegram",
                                                        HandledSenderId(user_id, username),
                                                        chat_id, MessageContent(text)))
                      ELSE tgLog
          /\ tgLast' = [called |-> TRUE, user_id |-> user_id, username |-> username,
                        published |-> passes]
    /\ UNCHANGED tgAllow
    /\ UNCHANGED nonTelegramVars

TelegramNext ==
    \E user_id \in UserIds, username \in Usernames, chat_id \in ChatIds, text \in Contents :
        OnMessage(user_id, username, chat_id, text)

\* ------------------------------------------------------------------------
\* CronService: start, stop and the loop tasks they make and cancel
\* ------------------------------------------------------------------------
MaxCronStarts == 2    \* calls of start()

CronLoops == 1..MaxCronStarts

\* a loop task outside _check_jobs; pc is "none" before its start(), "created"
\* before its first run, then "sleep", "handler", "done", "cancelled" or "dead"
NoLoop == [pc |-> "none", now_ms |-> 0, list |-> <<>>, same |-> FALSE, idx |-> 0,
           to_delete |-> {}]
AtPc(pc) == [NoLoop EXCEPT !.pc = pc]

CronLoopsInit ==
    /\ cronRunning = FALSE
    /\ cronTask = NoTask
    /\ cronLoops = [t \in CronLoops |-> NoLoop]

\* what lies outside the CronService, and the fields no loop step writes
outsideCron == <<busVars, chainVars, routeVars, loopVars, sessionVars, toolVars, heartbeatVars,
    hbTimeVars, allowVars, inboundVars, channelVars, spawnVars, asyncVars, svcVars,
    telegramVars>>
cronRest == <<cnow, handlerSet, krun, kpc, tickLocals, added, kops, invocations,
    deletedByTick, kghost>>

\* start: a new loop task replaces the one self._task named, which is left alive
LoopsStart ==
    /\ cronTask < MaxCronStarts
    /\ cronRunning' = TRUE
    /\ cronTask' = cronTask + 1
    /\ cronLoops' = [cronLoops EXCEPT ![cronTask + 1] = AtPc("created")]
    /\ UNCHANGED cronVars
    /\ UNCHANGED outsideCron

\* stop: the task self._task names is cancelled, also inside the handler it
\* awaits
LoopsStop ==
    /\ cronRunning' = FALSE
    /\ cronLoops' = IF cronTask # NoTask /\ cronLoops[cronTask].pc \in {"created", "sleep", "handler"}
                    THEN [cronLoops EXCEPT ![cronTask] = AtPc("cancelled")]
                    ELSE cronLoops
    /\ UNCHANGED cronTask
    /\ UNCHANGED cronVars
    /\ UNCHANGED outsideCron

\* `while self._running:` of _run_loop
CronLoopTop(running) == IF running THEN "sleep" ELSE "done"

\* _run_loop: the task runs for the first time
LoopBegins(t) ==
    /\ cronLoops[t].pc = "created"
    /\ cronLoops' = [cronLoops EXCEPT ![t] = AtPc(CronLoopTop(cronRunning))]
    /\ UNCHANGED <<cronRunning, cronTask>>
    /\ UNCHANGED cronVars
    /\ UNCHANGED outsideCron

\* the part of _check_jobs of task t that the result r of a scan leads to:
\* suspended in the handler, or through the removal of the one-shot jobs and
\* _save_jobs back to the top of the loop; a new self._jobs list is no longer
\* the list the other tasks iterate over
LoopContinues(t, r, now_ms, list, same) ==
    /\ jobOf' = r.jobOf
    /\ IF r.awaiting
       THEN /\ cronLoops' = [cronLoops EXCEPT
                               ![t] = [pc |-> "handler", now_ms |-> now_ms, list |-> list,
                                       same |-> same, idx |-> r.idx,
                                       to_delete |-> r.toDelete]]
            /\ UNCHANGED <<jobs, jobsFile>>
       ELSE LET kept == IF r.toDelete # {} THEN FilterIds(jobs, r.toDelete) ELSE jobs
            IN /\ jobs' = kept
               /\ jobsFile' = Snapshot(kept, r.jobOf)
               /\ cronLoops' = [u \in CronLoops |->
                                   IF u = t THEN AtPc(CronLoopTop(cronRunning))
                                   ELSE IF r.toDelete # {} /\ cronLoops[u].pc = "handler"
                                   THEN [cronLoops[u] EXCEPT !.same = FALSE]
                                   ELSE cronLoops[u]]

\* _run_loop of task t: the sleep is over, `if not self._running: break`, and
\* _check_jobs runs to its first await
LoopWakes(t) ==
    /\ cronLoops[t].pc = "sleep"
    /\ IF ~cronRunning
       THEN /\ cronLoops' = [cronLoops EXCEPT ![t] = AtPc("done")]
            /\ UNCHANGED <<jobs, jobOf, jobsFile>>
       ELSE LoopContinues(t, CronScan(1, jobs, jobOf, {}, <<>>, cnow), cnow, jobs, TRUE)
    /\ UNCHANGED <<cronRunning, cronTask>>
    /\ UNCHANGED cronRest
    /\ UNCHANGED outsideCron

\* the handler task t awaits returned (NoRaise) or raised exc
LoopHandlerEnds(t, exc) ==
    /\ cronLoops[t].pc = "handler"
    /\ LET l == cronLoops[t]
           id == l.list[l.idx]
           job == jobOf[id]
           js == [jobOf EXCEPT
                     ![id] = AfterRun(job, IF exc = NoRaise THEN "ok" ELSE "error", exc.text,
                                      l.now_ms, cnow)]
           del == IF DeleteAfterRun(job) THEN l.to_delete \cup {id} ELSE l.to_delete
       IN IF exc = NoRaise \/ Caught(exc)
          THEN LoopContinues(t, CronScan(l.idx + 1, l.list, js, del, <<>>, l.now_ms),
                             l.now_ms, l.list, l.same)
          ELSE /\ cronLoops' = [cronLoops EXCEPT ![t] = AtPc("dead")]
               /\ UNCHANGED <<jobs, jobOf, jobsFile>>
    /\ UNCHANGED <<cronRunning, cronTask>>
    /\ UNCHANGED cronRest
    /\ UNCHANGED outsideCron

\* set_handler, and time passing, beside the loop tasks
LoopsSetHandler == SetHandlerCore /\ UNCHANGED cronLoopVars /\ UNCHANGED outsideCron
LoopsAdvanceClock == AdvanceClockCore /\ UNCHANGED cronLoopVars /\ UNCHANGED outsideCron

\* add_job beside the loop tasks: a task still iterating over self._jobs
\* finds the appended job
LoopsAddJob(schedule) ==
    /\ AddJobCore(schedule)
    /\ cronLoops' = [t \in CronLoops |->
                        IF cronLoops[t].pc = "handler" /\ cronLoops[t].same
                        THEN [cronLoops[t] EXCEPT !.list = Append(@, JobIdPool[added + 1])]
                        ELSE cronLoops[t]]
    /\ UNCHANGED <<cronRunning, cronTask>>
    /\ UNCHANGED outsideCron

\* remove_job beside the loop tasks: self._jobs becomes a new list
LoopsRemoveJob(job_id) ==
    /\ RemoveJobCore(job_id)
    /\ cronLoops' = [t \in CronLoops |->
                        IF cronLoops[t].pc = "handler"
                        THEN [cronLoops[t] EXCEPT !.same = FALSE]
                        ELSE cronLoops[t]]
    /\ UNCHANGED <<cronRunning, cronTask>>
    /\ UNCHANGED outsideCron

\* enable_job beside the loop tasks
LoopsEnableJob(job_id, enabled) ==
    EnableJobCore(job_id, enabled) /\ UNCHANGED cronLoopVars /\ UNCHANGED outsideCron

CronLoopsNext ==
    \/ LoopsSetHandler
    \/ LoopsAdvanceClock
    \/ LoopsStart
    \/ LoopsStop
    \/ \E schedule \in Schedules : LoopsAddJob(schedule)
    \/ \E job_id \in IdPrefixes : LoopsRemoveJob(job_id)
    \/ \E job_id \in IdPrefixes, enabled \in BOOLEAN : LoopsEnableJob(job_id, enabled)
    \/ \E t \in CronLoops : LoopBegins(t)
    \/ \E t \in CronLoops : LoopWakes(t)
    \/ \E t \in CronLoops, exc \in Raisables \cup {NoRaise} : LoopHandlerEnds(t, exc)

\* ------------------------------------------------------------------------
\* Specifications: one per component, over all the variables
\* ------------------------------------------------------------------------
vars == <<busVars, chainVars, routeVars, loopVars, sessionVars, toolVars, cronVars,
         heartbeatVars, hbTimeVars, allowVars, inboundVars, channelVars, spawnVars, asyncVars, svcVars, telegramVars, cronLoopVars>>

Init == BusInit /\ ChainInit /\ RouteInit /\ LoopInit /\ SessionInit /\ ToolsInit
        /\ CronInit /\ HeartbeatInit /\ AllowInit /\ InboundInit /\ ChannelInit /\ SpawnInit /\ AsyncInit /\ ServiceInit /\ TelegramInit /\ CronLoopsInit

BusNext ==
    \/ \E p \in Publishers, q \in Queues : Publish(p, q)
    \/ \E p \in Publishers : PublishResume(p)
    \/ \E q \in Queues : Consume(q)
    \/ \E q \in Queues : ConsumeGet(q)
    \/ \E q \in Queues : ConsumeTimeout(q)
    \/ Close


SpecBus == Init /\ [][BusNext]_vars

\* the event loop runs every task that can run: a put that has room completes,
\* a wait_for ends by an item or by its timeout, the polling loops keep calling
BusFairness ==
    /\ \A p \in Publishers : WF_vars(PublishResume(p))
    /\ \A q \in Queues : WF_vars(ConsumeGet(q) \/ ConsumeTimeout(q))
    /\ \A q \in Queues : WF_vars(Consume(q))

SpecBusFair == Init /\ [][BusNext]_vars /\ BusFairness

SpecChain == Init /\ [][ChainNext]_vars

SpecRoute == Init /\ [][RouteNext]_vars

SpecLoop == Init /\ [][LoopNext]_vars

SpecSession == Init /\ [][SessionNext]_vars

SpecTools == Init /\ [][ToolsNext]_vars

SpecCron == Init /\ [][CronNext]_vars

SpecSched == Init /\ [][SchedNext]_vars

\* the heartbeat service built with each interval_minutes
InitHeartbeat ==
    /\ BusInit /\ ChainInit /\ RouteInit /\ LoopInit /\ SessionInit /\ ToolsInit /\ CronInit
    /\ AllowInit /\ InboundInit /\ ChannelInit /\ SpawnInit /\ AsyncInit /\ ServiceInit /\ TelegramInit /\ CronLoopsInit
    /\ \E interval_minutes \in IntervalMinutes : HeartbeatBuilt(interval_minutes)

SpecHeartbeat == InitHeartbeat /\ [][HeartbeatNext]_vars

SpecInbound == Init /\ [][InboundNext]_vars

SpecChannel == Init /\ [][ChannelNext]_vars

\* every parent configuration with every spawn
InitSpawn ==
    /\ BusInit /\ ChainInit /\ RouteInit /\ LoopInit /\ SessionInit /\ ToolsInit /\ CronInit
    /\ HeartbeatInit /\ AllowInit /\ InboundInit /\ ChannelInit /\ AsyncInit /\ ServiceInit /\ TelegramInit /\ CronLoopsInit
    /\ \E registered \in BOOLEAN, subagents \in SubagentsConfigs, checker \in BOOLEAN,
          task \in SpawnTasks, agent_id \in SpawnTargets :
           SpawnBuilt(registered, subagents, checker, task, agent_id)

SpecSpawn == InitSpawn /\ [][SpawnNext]_vars

SpecAsync == Init /\ [][AsyncNext]_vars

\* the heartbeat service built enabled and built disabled
InitService ==
    /\ BusInit /\ ChainInit /\ RouteInit /\ LoopInit /\ SessionInit /\ ToolsInit /\ CronInit
    /\ HeartbeatInit /\ AllowInit /\ InboundInit /\ ChannelInit /\ SpawnInit /\ AsyncInit /\ TelegramInit /\ CronLoopsInit
    /\ \E enabled \in BOOLEAN : ServiceBuilt(enabled)

SpecService == InitService /\ [][ServiceNext]_vars

\* the Telegram adapter built with each allow_from
InitTelegram ==
    /\ BusInit /\ ChainInit /\ RouteInit /\ LoopInit /\ SessionInit /\ ToolsInit /\ CronInit
    /\ HeartbeatInit /\ AllowInit /\ InboundInit /\ ChannelInit /\ SpawnInit /\ AsyncInit
    /\ ServiceInit
    /\ CronLoopsInit
    /\ \E allow_from \in TelegramAllowLists : TelegramBuilt(allow_from)

SpecTelegram == InitTelegram /\ [][TelegramNext]_vars

SpecCronLoops == Init /\ [][CronLoopsNext]_vars

\* every allowlist with every sender
InitAllow ==
    /\ BusInit /\ ChainInit /\ RouteInit /\ LoopInit /\ SessionInit /\ ToolsInit /\ CronInit
    /\ HeartbeatInit /\ InboundInit /\ ChannelInit /\ SpawnInit /\ AsyncInit /\ ServiceInit /\ TelegramInit /\ CronLoopsInit
    /\ \E allow_list \in AllowLists, sender_id \in SenderIds : AllowBuilt(allow_list, sender_id)

SpecAllow == InitAllow /\ [][AllowNext]_vars

\* ------------------------------------------------------------------------
\* Properties of the MessageBus
\* ------------------------------------------------------------------------
\* C1: for each logical queue, the messages consumed so far followed by the
\* messages still queued are exactly the messages whose publish completed, in
\* completion order: nothing is duplicated, reordered or lost.
C1_FifoPerQueue ==
    \A q \in Queues :
        /\ consumed[q] \o queues[q] = published[q]
        /\ \A i, j \in DOMAIN published[q] : published[q][i] = published[q][j] => i = j

C1_Witness ==
    /\ ~closed
    /\ Len(consumed["inbound"]) >= 2
    /\ Len(queues["inbound"]) = MaxSize
    /\ \E p \in Publishers : ppc[p] = "putting" /\ pq[p] = "inbound"

\* C2: no queue ever holds more than its capacity, and a publish suspended on
\* a full queue keeps its message and returns only by enqueuing it into a queue
\* that has a free slot.
C2_Holds ==
    /\ \A q \in Queues : Len(queues[q]) <= MaxSize
    /\ \A p \in Publishers : ppc[p] = "putting" =>
          /\ pmsg[p] # NoMsg
          /\ \A q \in Queues : pmsg[p] \notin Range(published[q])

C2_Step ==
    \A p \in Publishers :
        (ppc[p] = "putting" /\ ppc'[p] # "putting") =>
            /\ Len(queues[pq[p]]) < MaxSize
            /\ queues'[pq[p]] = Append(queues[pq[p]], pmsg[p])

C2_BoundedBackpressure == [](C2_Holds) /\ [][C2_Step]_vars

C2_Witness ==
    /\ ~closed
    /\ lastCall.op = "publish"
    /\ Len(published["inbound"]) > MaxSize
    /\ Len(queues["inbound"]) = MaxSize
    /\ queues["inbound"][MaxSize] = lastCall.msg
    /\ \E p \in Publishers : ppc[p] = "putting" /\ pq[p] = "inbound"

\* C3: a publish that starts after close() returns without enqueuing its
\* message, and a consume that starts after close() returns None, whatever the
\* queues hold.
C3_ClosedBusDropsAndReturnsNone ==
    lastCall.startedClosed =>
        /\ lastCall.op = "publish" =>
              \A q \in Queues : lastCall.msg \notin Range(published[q]) \cup Range(queues[q])
        /\ lastCall.op = "consume" => lastCall.result = NoMsg

C3_Witness ==
    /\ closed
    /\ lastCall.startedClosed
    /\ lastCall.op = "consume"
    /\ queues[lastCall.q] # <<>>
    /\ nextMsg > Len(published["inbound"]) + Len(published["outbound"]) + 1

\* ------------------------------------------------------------------------
\* Properties of the FallbackChain
\* ------------------------------------------------------------------------
\* the key of the candidate was inside its cooldown window when the loop reached it
VisitedInCooldown(j) ==
    visits[j].cd # NotSet /\ visits[j].t - visits[j].cd < CooldownSeconds

\* C7: a candidate reached while its key is inside the cooldown window is not
\* invoked and is recorded as a skipped attempt with reason rate_limit.
C7_CooldownCandidateSkipped ==
    \A j \in DOMAIN visits :
        VisitedInCooldown(j) =>
            /\ j \notin Range(invoked)
            /\ j \in DOMAIN attempts
            /\ attempts[j].skipped
            /\ attempts[j].reason = "rate_limit"

C7_Witness ==
    /\ xpc = "done"
    /\ xresult.kind = "response"
    /\ \E j \in DOMAIN visits : VisitedInCooldown(j) /\ j < xresult.from

\* C8: providers are invoked in candidate order; the first success is returned
\* and nothing after it is invoked; attempts has one entry per candidate
\* visited, in order, skipped exactly for the candidates not invoked.
C8_OrderedFirstSuccess ==
    /\ \A a, b \in DOMAIN invoked : a < b => invoked[a] < invoked[b]
    /\ \A j \in DOMAIN attempts :
          /\ j \in DOMAIN xcands
          /\ attempts[j].provider = xcands[j].provider
          /\ attempts[j].model = xcands[j].model
          /\ attempts[j].skipped <=> j \notin Range(invoked)
          /\ attempts[j].skipped =>
                (~ProviderKnown(xcands[j]) \/ attempts[j].reason = "rate_limit")
    /\ (xpc = "done" /\ xresult.kind = "response") =>
          /\ xresult.from = invoked[Len(invoked)]
          /\ xresult.attempts = attempts
          /\ Len(attempts) = xresult.from
          /\ attempts[xresult.from].error = None
          /\ \A j \in 1..(xresult.from - 1) : attempts[j].error # None

C8_Witness ==
    /\ xpc = "done"
    /\ xresult.kind = "response"
    /\ xresult.from = 3
    /\ ~attempts[1].skipped /\ attempts[1].reason = "rate_limit"
    /\ attempts[2].skipped /\ attempts[2].reason = "rate_limit"
    /\ Len(xcands) = 3

\* C9: when no candidate succeeds, execute gives no response: it raises, and
\* the error carries the attempts, one per candidate, each failed or skipped.
C9_ExhaustedCarriesAttempts ==
    xpc = "done" =>
        /\ xresult.kind \in {"response", "error"}
        /\ xresult.kind = "error" <=>
              \A j \in DOMAIN xcands :
                  j \in DOMAIN attempts /\ attempts[j].error # None
        /\ xresult.kind = "error" =>
              /\ xresult.from = 0
              /\ Len(xresult.attempts) = Len(xcands)
              /\ \A j \in DOMAIN xcands :
                    /\ xresult.attempts[j].provider = xcands[j].provider
                    /\ xresult.attempts[j].model = xcands[j].model
                    /\ xresult.attempts[j].error # None

C9_Witness ==
    /\ xpc = "done"
    /\ xresult.kind = "error"
    /\ Len(xcands) = 3
    /\ \E j \in DOMAIN attempts : ~attempts[j].skipped
    /\ \E j \in DOMAIN attempts : attempts[j].skipped /\ attempts[j].reason = "rate_limit"
    /\ \E j \in DOMAIN attempts : attempts[j].skipped /\ attempts[j].reason = "unknown"

C9_WitnessEmpty ==
    xpc = "done" /\ xresult.kind = "error" /\ xcands = <<>>

\* ------------------------------------------------------------------------
\* Properties of the RouteResolver
\* ------------------------------------------------------------------------
PeerRule(m, in) ==
    /\ m.peer.present /\ in.peer.present
    /\ m.peer.kind = in.peer.kind /\ m.peer.id = in.peer.id
    /\ (m.channel = "" \/ m.channel = in.channel)
GuildRule(m, in) == m.guild_id # "" /\ m.guild_id = in.guild_id
TeamRule(m, in) == m.team_id # "" /\ m.team_id = in.team_id
AccountRule(m, in) == m.account_id # "" /\ m.account_id = in.account_id
ChannelRule(m, in) ==
    /\ m.channel # "" /\ m.channel = in.channel
    /\ ~m.peer.present /\ m.account_id = ""

RuleHolds(name, m, in) ==
    CASE name = "peer" -> PeerRule(m, in)
      [] name = "guild" -> GuildRule(m, in)
      [] name = "team" -> TeamRule(m, in)
      [] name = "account" -> AccountRule(m, in)
      [] name = "channel" -> ChannelRule(m, in)
      [] OTHER -> FALSE

BindingMatchesInput(b, in) ==
    \E name \in {"peer", "guild", "team", "account", "channel"} : RuleHolds(name, b.match, in)

\* C10: resolve returns the route of the first binding, in list order, that
\* matches by one of the five rules, named in matched_by; with no matching
\* binding it returns agent "default", matched_by "default".
C10_FirstMatchingBinding ==
    route # NoRoute =>
        LET hits == {i \in DOMAIN bindings : BindingMatchesInput(bindings[i], routeInput)}
        IN IF hits = {}
           THEN route.agent_id = "default" /\ route.matched_by = "default"
           ELSE LET k == CHOOSE i \in hits : \A j \in hits : i <= j
                IN /\ route.agent_id = AgentOrDefault(bindings[k].agent_id)
                   /\ RuleHolds(route.matched_by, bindings[k].match, routeInput)

\* two bindings match, by different rules; the first one is a channel wildcard
C10_Witness ==
    /\ route # NoRoute
    /\ Len(bindings) = 2
    /\ route.matched_by = "channel"
    /\ route.agent_id = "agent1"
    /\ PeerRule(bindings[2].match, routeInput)

C10_WitnessDefault ==
    /\ route # NoRoute
    /\ Len(bindings) = 2
    /\ route.matched_by = "default"

\* the session keys a route must carry for the agent_id it names
KeysOf(r, in) ==
    /\ r.session_key = "agent:" \o r.agent_id \o ":" \o in.channel \o ":" \o in.account_id
    /\ r.main_session_key = "agent:" \o r.agent_id \o ":main"

\* C11: every resolved route has session_key agent:<agent_id>:<channel>:<account_id>
\* and main_session_key agent:<agent_id>:main for the agent_id it returns, and a
\* second resolve of the same input against the same bindings returns the same
\* keys (and the same route).
C11_DeterministicSessionKeys ==
    /\ route # NoRoute => /\ KeysOf(route, routeInput)
                          /\ route.agent_id # ""
                          /\ route.channel = routeInput.channel
                          /\ route.account_id = routeInput.account_id
    /\ route2 # NoRoute => /\ KeysOf(route2, routeInput)
                           /\ route2.session_key = route.session_key
                           /\ route2.main_session_key = route.main_session_key
                           /\ route2 = route

\* resolved twice through a binding whose agent_id is empty, with an account
C11_Witness ==
    /\ route2 # NoRoute
    /\ route.matched_by \notin {"default"}
    /\ Len(bindings) = 2
    /\ route.agent_id = "default"
    /\ route.session_key = "agent:default:tg:a1"

C11_WitnessNamed ==
    /\ route2 # NoRoute
    /\ route.session_key = "agent:agent1:dc:"
    /\ route.main_session_key = "agent:agent1:main"

\* ------------------------------------------------------------------------
\* Properties of the AgentLoop
\* ------------------------------------------------------------------------
\* C4: a turn makes at most max_iterations + 1 provider calls, and when it is
\* over the session ends with an assistant message without tool calls (a reply
\* or the synthetic truncation notice); every step of a turn brings it closer
\* to its end, so no turn runs for ever.
C4_Holds ==
    /\ providerCalls <= MaxIterations + 1
    /\ (lpc = "idle" /\ turns > 0) =>
          /\ session[Len(session)].role = "assistant"
          /\ session[Len(session)].tool_calls = <<>>

\* steps one iteration can take: the provider call, its tool calls, the loop head
StepsPerIteration == (CHOOSE n \in CallCounts : \A m \in CallCounts : m <= n) + 2

\* an upper bound on the loop steps left in the turn
StepsLeft ==
    CASE lpc = "idle" -> 0
      [] lpc = "save" -> 1
      [] lpc = "publish" -> 2
      [] lpc = "loop" -> 3 + (MaxIterations - iteration) * StepsPerIteration
      [] lpc = "provider" ->
            3 + (MaxIterations - iteration) * StepsPerIteration + StepsPerIteration - 1
      [] lpc = "tool" ->
            3 + (MaxIterations - iteration) * StepsPerIteration + Len(pendingCalls)

C4_Step ==
    (lpc # "idle" /\ <<lpc, iteration, pendingCalls>>' # <<lpc, iteration, pendingCalls>>)
        => (StepsLeft' < StepsLeft /\ StepsLeft' >= 0)

C4_BoundedTurn == [](C4_Holds) /\ [][C4_Step]_vars

\* the provider returned tool calls every time, up to the cap
C4_Witness ==
    /\ lpc = "idle"
    /\ turnEnd = "cap"
    /\ providerCalls = MaxIterations
    /\ session[Len(session)].content[1] = "truncated"

\* C5: at every turn boundary each call id of each assistant tool_calls message
\* has a later tool-role message with that tool_call_id.
C5_ToolCallsAnswered ==
    lpc = "idle" =>
        \A i \in DOMAIN session : \A k \in DOMAIN session[i].tool_calls :
            \E j \in DOMAIN session :
                /\ j > i
                /\ session[j].role = "tool"
                /\ session[j].tool_call_id = session[i].tool_calls[k]

\* a turn ended by provider exhaustion, in which a sub-agent's callback wrote
\* to the session between an assistant tool_calls message and its last reply
C5_Witness ==
    /\ lpc = "idle"
    /\ turnEnd = "exhausted"
    /\ \E i, j, k \in DOMAIN session :
          /\ i < j /\ j < k
          /\ Len(session[i].tool_calls) = 2
          /\ session[j].content[1] = "subagent"
          /\ session[k].tool_call_id = session[i].tool_calls[2]

\* C6: an outbound message that carries an assistant reply is published only
\* when the session already holds that assistant message.
C6_SessionBeforeOutbound ==
    lastOutbound.kind = "assistant" =>
        \E i \in DOMAIN session :
            /\ session[i].role = "assistant"
            /\ session[i].content = lastOutbound.content

C6_Witness ==
    /\ lastOutbound.kind = "assistant"
    /\ lastOutbound.content[1] = "reply"
    /\ iteration = MaxIterations
    /\ lpc = "save"

\* ------------------------------------------------------------------------
\* Properties of the SessionManager
\* ------------------------------------------------------------------------
\* C12: whenever every key has been saved since its last change (by save or by
\* save_all), a fresh SessionManager on the same directory holds, for each key
\* of the manager, a session with the same key, messages and summary.
C12_SaveLoadRoundTrip ==
    (ManagerIdle /\ dirty = {}) =>
        \A k \in SessionKeys :
            sessions[k].present => LoadSessions(disk)[k] = sessions[k]

\* the complete documents a save in progress or just done may put at path p
NewVersions(p) ==
    {Dump(sessions[k]) : k \in {j \in SessionKeys : sessions[j].present /\ SessionPath(j) = p}}

C13_Holds == \A p \in JsonPaths : disk[p].kind \in {"absent", "json"}

C13_Step ==
    /\ \A p \in JsonPaths : disk'[p] = disk[p] \/ disk'[p] \in NewVersions(p)
    /\ saveResult' = "raised" =>
           /\ sessions' = sessions
           /\ \A p \in JsonPaths : disk'[p] = disk[p]

\* C13: at every point of a save, also when the write of the temp file fails
\* or the process dies before the rename, each session file holds either what
\* it held before (a complete document or nothing) or the complete new
\* document, never a part of one; a save that raises changes neither the
\* in-memory sessions nor the session files.
C13_AtomicSave == [](C13_Holds) /\ [][C13_Step]_vars

\* a save of a changed session failed over a file saved before
C13_Witness ==
    /\ saveResult = "raised"
    /\ \E k \in SessionKeys :
          /\ sessions[k].present /\ k \in dirty
          /\ disk[SessionPath(k)].kind = "json"
          /\ disk[SessionPath(k)] # Dump(sessions[k])
          /\ disk[WithSuffixTmp(SessionPath(k))] = PartialFile

\* between write_text and rename: the old version in place, the new one aside
C13_WitnessBeforeRename ==
    /\ spc = "written"
    /\ disk[SessionPath(skey)].kind = "json"
    /\ disk[SessionPath(skey)] # Dump(sessions[skey])
    /\ disk[WithSuffixTmp(SessionPath(skey))] = Dump(sessions[skey])

\* ------------------------------------------------------------------------
\* Properties of the ToolRegistry
\* ------------------------------------------------------------------------
Finished(c) == tpc[c] \in {"returned", "raised"}

\* C14 as stated: ToolRegistry.execute never propagates an exception: an
\* unknown name gives an error result, and whatever the tool raises gives an
\* error result carrying the exception text.
C14_NeverPropagates ==
    \A c \in Callers : Finished(c) =>
        /\ tres[c].kind = "result"
        /\ targs[c].name \notin RegisteredTools => tres[c].is_error
        /\ traised[c] # NoRaise =>
               tres[c] = ToolError("Tool execution error: " \o traised[c].text)

\* C14 amended: an unknown name gives an error result; an exception of class
\* Exception raised by the tool's execute gives an error result carrying the
\* exception text; what execute lets through to its caller is exactly what the
\* tool raised outside class Exception (asyncio.CancelledError, SystemExit).
C14_ExceptionsBecomeErrors ==
    \A c \in Callers : Finished(c) =>
        /\ targs[c].name \notin RegisteredTools =>
               tres[c].kind = "result" /\ tres[c].is_error
        /\ traised[c].base = "Exception" =>
               tres[c] = ToolError("Tool execution error: " \o traised[c].text)
        /\ tres[c].kind = "raised" <=> traised[c].base = "BaseException"
        /\ tres[c].kind = "raised" => tres[c].text = traised[c].text

\* one call ended on an unknown name, one on a tool that raised an Exception
C14_Witness ==
    /\ Finished("t1") /\ targs["t1"].name = "nonexistent" /\ tres["t1"].is_error
    /\ Finished("t2") /\ targs["t2"].name \in RegisteredTools
    /\ traised["t2"].base = "Exception" /\ tres["t2"].is_error

\* C15: every use a contextual tool makes of its context (the send callback of
\* the message tool, the add_job of the cron tool) carries the (channel,
\* chat_id) given to the execute call that makes it, whatever other execute
\* calls on the same tool are suspended or ran in between.
C15_ContextOfOwnCall ==
    /\ \A i \in DOMAIN sends : <<sends[i].channel, sends[i].chat_id>> = sends[i].given
    /\ \A i \in DOMAIN toolJobs :
          <<toolJobs[i].channel, toolJobs[i].chat_id>> = toolJobs[i].given

\* two calls of the message tool suspended at once with different contexts,
\* and a cron call after them with a third
C15_Witness ==
    /\ tpc["t1"] = "sending" /\ tpc["t2"] = "sending"
    /\ Len(sends) = 2 /\ sends[1].given # sends[2].given
    /\ sends[1].caller # sends[2].caller
    /\ tctx["message"] = sends[2].given

C15_WitnessCron ==
    /\ Len(toolJobs) = 2
    /\ toolJobs[1].given # toolJobs[2].given
    /\ toolJobs[2].given # NoContext /\ toolJobs[1].given # NoContext

\* ------------------------------------------------------------------------
\* Properties of the CronService
\* ------------------------------------------------------------------------
\* the tick that just ended ran _check_jobs to its end
TickCompleted == kpc = "sleep" /\ krun = "running" /\ Len(examined) > 0

\* a job as the tick saw it was enabled, had a next run, and that not later
\* than the tick's time
WasDue(e) == e.enabled /\ e.next_run_ms # NoneMs /\ e.next_run_ms <= tickNow

C17_OneShotRunsOnceThenGone ==
    \A id \in deletedByTick :
        /\ invocations[id] = 1
        /\ id \notin Range(jobs)

\* C18: add_job followed by remove_job of the id it returned leaves
\* list_jobs() as it was before the add: the same jobs in the same order
C18_AddThenRemoveRestores ==
    kghost.phase = "removed" => Snapshot(jobs, jobOf) = kghost.pre

\* a job was added to a list that held another job, and removed again
C18_Witness ==
    /\ kghost.phase = "removed"
    /\ Len(kghost.pre) > 0
    /\ \E i \in DOMAIN kghost.pre : kghost.pre[i].id[1] = kghost.id[1]

\* a step in which _check_jobs runs to its end
TickCompletes ==
    /\ TickStart \/ HandlerReturns \/ \E exc \in Raisables : HandlerRaises(exc)
    /\ kpc' = "sleep"
    /\ krun' = "running"

\* a new CronService opened on the store lists the jobs of the running one,
\* with the same enabled, schedule and state
FileHoldsList == LoadJobs(jobsFile) = Snapshot(jobs, jobOf)

LaterDue ==
    {j \in (tickIdx + 1)..Len(tickList) : WasDue(jobOf[tickList[j]])}

\* the cron handler just failed: the job carries the error, an `every` job
\* has its next run, the tick goes on to the next due job or ends with the
\* loop alive
CronFailureRecorded(exc) ==
    LET id == tickList[tickIdx]
    IN /\ jobOf'[id].last_status = "error"
       /\ jobOf'[id].last_error = exc.text
       /\ jobOf[id].schedule.kind = "every" =>
              jobOf'[id].next_run_ms = tickNow + jobOf[id].schedule.every_ms
       /\ krun' = "running"
       /\ IF LaterDue = {}
          THEN kpc' = "sleep"
          ELSE /\ kpc' = "handler"
               /\ tickIdx' \in LaterDue
               /\ \A j \in LaterDue : tickIdx' <= j

\* the heartbeat handler just failed: the failure is logged and the loop is alive
HeartbeatFailureRecorded ==
    /\ hbLog' = "Heartbeat execution failed"
    /\ hrun' = "running"

MinIntervalSeconds == 300

\* a step in which the heartbeat loop invokes the handler
HbInvokes ==
    /\ \E active \in BOOLEAN : HbTickTimed(active)
    /\ hpc' = "handler"

PartsOf(s) ==
    {SubSeq(s, i, j) : <<i, j>> \in
        {p \in (1..(Len(s) + 1)) \X (0..Len(s)) :
            /\ p[1] <= p[2] + 1
            /\ \A k \in p[1]..p[2] : s[k] # "|"
            /\ (p[1] = 1 \/ s[p[1] - 1] = "|")
            /\ (p[2] = Len(s) \/ s[p[2] + 1] = "|")}}

\* s without one leading '@', if it has one
WithoutOneAt(s) == IF s # <<>> /\ s[1] = "@" THEN Tail(s) ELSE s

\* s without any of its leading '@'
WithoutLeadingAts(s) ==
    LET k == CHOOSE n \in 0..Len(s) :
                 /\ \A i \in 1..n : s[i] = "@"
                 /\ (n = Len(s) \/ s[n + 1] # "@")
    IN SubSeq(s, k + 1, Len(s))

AllowCalled == alCall.called

\* C22: is_allowed(sender) is true exactly when the allowlist is empty or some
\* '|'-separated part of the sender equals some allowlist entry after one
\* leading '@' is stripped from both.
C22_AllowedIffPartMatchesOneAt ==
    AllowCalled =>
        (alCall.result <=>
            \/ alCall.allow_list = <<>>
            \/ \E p \in PartsOf(alCall.sender_id), e \in Range(alCall.allow_list) :
                   WithoutOneAt(p) = WithoutOneAt(e))

\* C22 as amended: is_allowed(sender) is true exactly when the allowlist is
\* empty or some '|'-separated part of the sender equals some allowlist entry
\* after every leading '@' is stripped from both.
C22_AllowedIffPartMatches ==
    AllowCalled =>
        (alCall.result <=>
            \/ alCall.allow_list = <<>>
            \/ \E p \in PartsOf(alCall.sender_id), e \in Range(alCall.allow_list) :
                   WithoutLeadingAts(p) = WithoutLeadingAts(e))

\* the entry "@x" has allowed the sender "x|y"
C22_Witness ==
    /\ AllowCalled
    /\ alCall.allow_list = << <<"@", "x">> >>
    /\ alCall.sender_id = <<"x", "|", "y">>
    /\ alCall.result = TRUE

\* a sender the allowlist admits: the list is empty, or a '|'-separated part of
\* the sender equals an entry once the leading '@' are taken off both
Admitted(allow_list, sender_id) ==
    \/ allow_list = <<>>
    \/ \E p \in PartsOf(sender_id), e \in Range(allow_list) :
           WithoutLeadingAts(p) = WithoutLeadingAts(e)

\* C23: handle_message publishes exactly one InboundMessage, carrying the
\* adapter's name as channel and the given sender, chat and content, when the
\* sender is allowed, and publishes nothing when the sender is rejected.
C23_PublishesOnceIffAllowed ==
    [][\A name \in ChannelNames, sender_id \in InboundSenders, chat_id \in ChatIds,
         content \in Contents :
           HandleMessage(name, sender_id, chat_id, content) =>
               IF Admitted(AllowFrom(name), sender_id)
               THEN inboundLog' = inboundLog \o
                        <<[channel |-> name, sender_id |-> sender_id,
                           chat_id |-> chat_id, content |-> content]>>
               ELSE inboundLog' = inboundLog]_vars

\* of two calls, one was rejected and whatsapp published the message of "y|@x"
C23_Witness ==
    /\ hcalls = 2
    /\ Len(inboundLog) = 1
    /\ inboundLog[1].channel = "whatsapp"
    /\ inboundLog[1].sender_id = <<"y", "|", "@", "x">>

\* ------------------------------------------------------------------------
\* Properties of the ChannelManager and of the outbound dispatcher
\* ------------------------------------------------------------------------
\* C24: send_to_channel calls send exactly once on the named channel when that
\* channel is registered and running, and otherwise calls no send and raises
\* nothing.
C24_SendsOnceIfRunning ==
    [][\A outcome \in Outcomes :
          Dispatch(outcome) =>
              IF Head(outQ) \in Range(channels) /\ chRunning[Head(outQ)]
              THEN chSends' = [chSends EXCEPT ![Head(outQ)] = chSends[Head(outQ)] + 1]
              ELSE chSends' = chSends /\ dpc' = "running"]_vars

\* one message was sent by its channel and one, for a channel that is absent
\* or stopped, was dropped
C24_Witness ==
    /\ dpassed = 2
    /\ chSends["telegram"] = 1
    /\ chSends["whatsapp"] = 0
    /\ dpc = "running"

\* C25: the outbound dispatcher keeps running until it is cancelled, whatever
\* the outbound messages it has handled: a message for an absent or stopped
\* channel, an adapter whose send raises, a send racing with the adapter's stop.
C25_DispatcherRunsUntilCancelled == dpc \in {"running", "cancelled"}

ManagerCallEnded == mpc = "idle" /\ mlast # "none"

\* C26: a channel whose start or stop raises does not prevent start_all and
\* stop_all from reaching the other channels, and neither call raises.
C26_ReachesAllNeverRaises ==
    ManagerCallEnded => (mRaised = NoRaise /\ mAttempted = mTargets)

\* C26 as amended: a channel whose start or stop raises an Exception does not
\* prevent the others and the call does not raise; an exception that is not an
\* Exception (asyncio.CancelledError) ends the call and is raised by it.
C26_ReachesAllUnlessBaseException ==
    ManagerCallEnded =>
        IF mFailed \subseteq {"Exception"}
        THEN mRaised = NoRaise /\ mAttempted = mTargets
        ELSE mRaised.base = "BaseException"

\* start_all has ended: the start of telegram raised, whatsapp runs all the same
C26_Witness ==
    /\ ManagerCallEnded
    /\ mlast = "start_all"
    /\ mFailed = {"Exception"}
    /\ ~chRunning["telegram"]
    /\ chRunning["whatsapp"]

\* ------------------------------------------------------------------------
\* Properties of the sub-agent spawn policy
\* ------------------------------------------------------------------------
\* a spawn that names a target agent and is checked against the parent
SpawnChecked ==
    spCall.called /\ spCall.task # "" /\ spCall.agent_id # "" /\ spCall.checker

LastMessages(msgs, n) ==
    LET kept == IF n < Len(msgs) THEN n ELSE Len(msgs)
    IN SubSeq(msgs, Len(msgs) - kept + 1, Len(msgs))

\* C28: for every history and every keep_last >= 0, after
\* truncate_history(key, keep_last) the session's history is exactly its last
\* min(length, keep_last) messages.
C28_KeepsLastMessages ==
    [][\A key \in SessionKeys, keep_last \in 0..MaxHistory :
          (TruncateHistory(key, keep_last) /\ sessions[key].present) =>
              sessions'[key].messages = LastMessages(sessions[key].messages, keep_last)]_vars

\* ------------------------------------------------------------------------
\* Properties of the cooldown of the FallbackChain
\* ------------------------------------------------------------------------
\* the candidate the loop hands to provider.chat in this step
Invokes(j) == j \notin Range(invoked) /\ j \in Range(invoked')

\* a failure at time now puts the failed key, and no other, in _cooldowns with
\* the time now; any other step leaves _cooldowns as it is
CooldownStartsOnlyOnFailure ==
    IF xpc = "calling" /\ \E text \in ErrorTexts : ChatRaises(text)
    THEN \A k \in Keys :
             cooldowns'[k] = IF k = Key(xcands[xi]) THEN now ELSE cooldowns[k]
    ELSE cooldowns' = cooldowns

\* a key is handed to provider.chat only if it never failed or failed at
\* least CooldownSeconds ago
InvokedOutsideCooldown ==
    \A j \in 1..MaxCandidates :
        Invokes(j) =>
            LET failed == cooldowns'[Key(xcands'[j])]
            IN failed = NotSet \/ now' - failed >= CooldownSeconds

\* a registered candidate reached outside its cooldown window is invoked
EligibleOutsideCooldown ==
    \A j \in DOMAIN visits :
        (ProviderKnown(xcands[j]) /\ ~VisitedInCooldown(j)) => j \in Range(invoked)

\* C29: after a candidate's provider call fails at time t, no execute invokes
\* that key before t + 60 s and the key is eligible again from t + 60 s on; a
\* success or a skip never starts or extends a cooldown.
C29_CooldownWindow ==
    /\ [](EligibleOutsideCooldown)
    /\ [][CooldownStartsOnlyOnFailure /\ InvokedOutsideCooldown]_vars

\* a key that failed CooldownSeconds ago is being invoked again
C29_Witness ==
    /\ xpc = "calling"
    /\ cooldowns[Key(xcands[xi])] # NotSet
    /\ now - cooldowns[Key(xcands[xi])] = CooldownSeconds

\* ------------------------------------------------------------------------
\* Properties of the priority of the routing rules
\* ------------------------------------------------------------------------
\* the order of the rules in the cascade
RulePriority == <<"peer", "guild", "team", "account", "channel">>

\* some binding of the table matches the input by the rule of this rank
RankMatches(r) ==
    \E i \in DOMAIN bindings : RuleHolds(RulePriority[r], bindings[i].match, routeInput)

\* C30: when several bindings match an input by different criteria, the agent
\* is chosen by peer match first, then guild, then team, then account, then
\* channel wildcard, then the default, whatever the order of the bindings.
C30_PriorityCascade ==
    route # NoRoute =>
        LET ranks == {r \in DOMAIN RulePriority : RankMatches(r)}
        IN IF ranks = {}
           THEN route.matched_by = "default"
           ELSE LET best == CHOOSE r \in ranks : \A q \in ranks : r <= q
                IN /\ route.matched_by = RulePriority[best]
                   /\ \E i \in DOMAIN bindings :
                          /\ RuleHolds(RulePriority[best], bindings[i].match, routeInput)
                          /\ route.agent_id = AgentOrDefault(bindings[i].agent_id)

\* ------------------------------------------------------------------------
\* Properties of the MessageBus at shutdown
\* ------------------------------------------------------------------------
\* C31: every consume_inbound / consume_outbound call of a polling loop reaches
\* a suspension point (the wait inside wait_for), while the bus is open and
\* after it has been closed, so the loop cannot spin without yielding.
C31_ConsumeAlwaysSuspends ==
    [][\A q \in Queues : Consume(q) => cpc'[q] = "getting"]_vars

\* C35: once the bus has been closed every publish call eventually returns,
\* the publish of a publisher that was blocked on a full queue when close()
\* was called included.
C35_PublishReturnsAfterClose ==
    \A p \in Publishers : (closed /\ ppc[p] = "putting") ~> (ppc[p] = "idle")

\* C36: the binding whose agent resolve returns either has an empty channel
\* or has the channel of the input, whichever rule produced the match.
C36_ChannelOfBindingRespected ==
    route # NoRoute =>
        LET hits == {i \in DOMAIN bindings : BindingMatchesInput(bindings[i], routeInput)}
        IN hits # {} =>
               LET k == CHOOSE i \in hits : \A j \in hits : i <= j
               IN bindings[k].match.channel \in {"", routeInput.channel}

\* ------------------------------------------------------------------------
\* Properties of the job ids and of the next run of the CronService
\* ------------------------------------------------------------------------
\* C37: remove_job(job_id) removes at most one job, the one whose id equals
\* job_id, and leaves every other job in the list and in jobs.json; enable_job
\* changes only the job whose id equals job_id. This for every argument, the
\* empty string and the proper prefixes of an id included.
C37_OnlyTheNamedJob ==
    [][\A job_id \in IdPrefixes :
          /\ RemoveJob(job_id) =>
                /\ jobs' = FilterIds(jobs, {job_id})
                /\ job_id \notin Range(jobs) => jobsFile' = jobsFile
          /\ (\E enabled \in BOOLEAN : EnableJob(job_id, enabled)) =>
                \A id \in JobIds : id # job_id => jobOf'[id] = jobOf[id]]_vars

\* a handler invocation for the job id is in progress
HandlerInProgress(id) == kpc = "handler" /\ tickList[tickIdx] = id

\* an enabled job with an interval schedule
EnabledRecurring(job) == job.enabled /\ job.schedule.kind = "every"

\* C38: whenever no handler invocation for it is in progress, an enabled
\* recurring job has a next_run_ms, in memory and in jobs.json: after handler
\* errors, after stop() during a handler, and when add_job, remove_job or
\* enable_job save the list while a handler is awaited.
C38_RecurringJobKeepsNextRun ==
    /\ \A id \in Range(jobs) :
           (EnabledRecurring(jobOf[id]) /\ ~HandlerInProgress(id)) =>
               jobOf[id].next_run_ms # NoneMs
    /\ \A i \in DOMAIN jobsFile :
           (EnabledRecurring(jobsFile[i]) /\ ~HandlerInProgress(jobsFile[i].id)) =>
               jobsFile[i].next_run_ms # NoneMs

\* ------------------------------------------------------------------------
\* Properties of the callback of an async tool
\* ------------------------------------------------------------------------
\* C39: while the async tool runs inside ToolRegistry.execute, the callback it
\* holds is the one passed to that execute call: none when the call was made
\* without a callback, never one left over from an earlier call.
C39_HoldsCallbackOfTheCall ==
    \A c \in Callers : apc[c] = "running" => heldCallback = apassed[c]

\* ------------------------------------------------------------------------
\* Properties of HeartbeatService start and stop
\* ------------------------------------------------------------------------
\* a step in which loop task t invokes the handler
ServiceInvokes(t, content) ==
    /\ RunLoopWakes(t, content)
    /\ loopTasks'[t] = "handler"

\* a line that is not blank and starts with neither "#" nor "<!--"
StatedActive(line) ==
    /\ \E i \in 1..Len(line) : line[i] # " "
    /\ Head(line) \notin {"#", "<!--"}

C34_Holds ==
    ~svcEnabled => ~svcRunning /\ \A t \in LoopTasks : loopTasks[t] # "handler"

C34_Step ==
    \A t \in LoopTasks, content \in HeartbeatContents :
        ServiceInvokes(t, content) =>
            /\ svcEnabled /\ svcRunning
            /\ \E i \in 1..Len(content) : StatedActive(content[i])

\* C34: the handler is invoked only when the service is enabled, started and
\* not stopped since, and HEARTBEAT.md holds an active line; a service built
\* with enabled = false never reports running and never invokes the handler;
\* no invocation begins while the service is stopped
C34_InvokedOnlyWhileRunning == [](C34_Holds) /\ [][C34_Step]_vars

\* after stop() and a later start(), a loop task invokes the handler
C34_Witness ==
    /\ svcEnabled /\ svcRunning
    /\ \E t \in LoopTasks : loopTasks[t] = "handler"
    /\ \E t \in LoopTasks : loopTasks[t] \in {"cancelled", "done"}

\* ------------------------------------------------------------------------
\* Properties of TelegramChannel._on_message
\* ------------------------------------------------------------------------
\* allow_list names entry, with or without leading "@"
Listed(allow_list, entry) ==
    \E i \in DOMAIN allow_list : LStrip(allow_list[i], "@") = entry

\* C33: a Telegram message from a user whose username, but not numeric id,
\* is on the allowlist is published as an InboundMessage
C33_UsernameOnAllowlistPublished ==
    (/\ tgLast.called
     /\ tgLast.username # <<>>
     /\ Listed(tgAllow, tgLast.username)
     /\ ~Listed(tgAllow, tgLast.user_id))
        => /\ tgLast.published
           /\ tgLog # <<>>
           /\ tgLog[Len(tgLog)].channel = "telegram"

\* ------------------------------------------------------------------------
\* Properties of the CronService loop tasks
\* ------------------------------------------------------------------------
\* the job whose handler loop task t awaits, NoJobId outside a handler
Invoking(t) ==
    IF cronLoops[t].pc = "handler" THEN cronLoops[t].list[cronLoops[t].idx] ELSE NoJobId

\* C32: a cron job's handler is never invoked while an earlier invocation for
\* the same job is still in progress
C32_NoReentry ==
    \A t, u \in CronLoops : t # u /\ Invoking(t) # NoJobId => Invoking(t) # Invoking(u)

====
